---- MODULE Spec2Model ----
(***************************************************************************)
(* A model of the ai-newsletter repository: the iterative paper discovery  *)
(* loop (src/src/search_papers.py, EnhancedPaperSearch) and the            *)
(* summarization pipeline (src/src/summarize_papers.py, PaperSummarizer).  *)
(*                                                                         *)
(* Text is modelled as a sequence of pieces.  A URL is a sequence of       *)
(* tokens whose concatenation is the URL string, e.g.                      *)
(*   <<"https://", "arxiv.org", "/", "abs", "/", "2401.12345", "v2">>      *)
(* is "https://arxiv.org/abs/2401.12345v2".  A publication date is a       *)
(* sequence of one-character strings.  A character without a TLA+ escape   *)
(* is written as its Python escape, one piece.  A float is a binary64      *)
(* value, computed as Python computes it; a float rounded to n decimals is *)
(* the integer count of its 10^-n units (a score in thousandths, a         *)
(* processing time in hundredths).  A value of a backend response carries  *)
(* its JSON type.                                                          *)
(***************************************************************************)
EXTENDS Integers, Sequences, FiniteSets, TLC

VARIABLES
    \* ---- EnhancedPaperSearch.search_papers, one call ----
    pc,                \* "idle" | "loop" | "awaiting" | "validating" |
                       \* "returned" | "raised"
    max_results,       \* the max_results argument
    final_papers,      \* List[SearchedPaper]
    seen_urls,         \* set of canonical URLs
    exhausted_cycles,  \* the remaining-attempts counter
    url_list,          \* the exclusion list rendered into the request in flight
    requests,          \* number of client.chat.completions.create calls issued
    response,          \* the backend outcome of the latest request
    validated_papers,  \* the validated_papers list of the iteration
    paper_index,       \* how many candidates of the response the validation
                       \* loop has gone through
    only_fresh,        \* every response so far held only valid, new candidates
    result,            \* what the call gave its caller
    \* ---- PaperSummarizer.summarize_papers, one call ----
    spc,               \* "idle" | "start" | "parallel" | "joined" | "sequential" | "returned" | "raised"
    papers,            \* the papers argument (a sequence of paper objects)
    parallel,          \* the parallel argument
    max_workers,       \* self.max_workers
    workers,           \* per paper: the step its _summarize_single_paper call
                       \* is at, and what fetch, generation and persistence did
    outcomes,          \* per paper: what its _summarize_single_paper call gave
    finished,          \* the paper indices in the order their calls completed
    files,             \* the output directory: file name -> the text it holds
    results,           \* the results list
    summary_dicts,     \* the reporting records
    success_count,     \* the success counter
    returned,          \* what summarize_papers gave its caller
    \* ---- _validate_and_convert_arxiv_url, one call ----
    canon_pc,          \* "idle" | "call" | "returned" | "raised"
    canon_url,         \* the url argument
    canon_result,      \* the canonical URL returned, or the ValueError raised
    \* ---- _calculate_composite_score, one call ----
    score_pc,          \* "idle" | "call" | "returned"
    score_paper,       \* the paper argument (a dict of signals)
    score_result       \* the score returned, in thousandths

searchVars == <<pc, max_results, final_papers, seen_urls, exhausted_cycles,
                url_list, requests, response, validated_papers, paper_index,
                only_fresh, result>>
sumVars == <<spc, papers, parallel, max_workers, workers, outcomes, finished,
             files, results, summary_dicts, success_count, returned>>
canonVars == <<canon_pc, canon_url, canon_result>>
scoreVars == <<score_pc, score_paper, score_result>>
vars == <<searchVars, sumVars, canonVars, scoreVars>>

\* ------------------------------------------------------------------ bounds
MaxBatch == 2          \* candidates in one backend response
MaxResults == 2        \* largest max_results argument tried
MaxPapers == 2         \* longest papers list given to summarize_papers

\* ------------------------------------------------------- program constants
InitialCycles == 5     \* exhausted_cycles = 5
DefaultMaxWorkers == 3 \* max_workers: int = 3
MaxFilenameLen == 150  \* if len(sanitized) > 150
current_year == 2026   \* datetime.now().year

\* ----------------------------------------------------------------- helpers
Min(a, b) == IF a < b THEN a ELSE b
Range(s) == {s[i] : i \in 1..Len(s)}
Tok(url, i) == IF i \in 1..Len(url) THEN url[i] ELSE ""
Get(d, k, default) == IF k \in DOMAIN d THEN d[k] ELSE default

\* ---- Python text
\* The characters Python treats as whitespace (str.isspace, which str.strip,
\* the pattern \s and int() all use).  A character that has no escape in a
\* string here is the piece that spells its Python escape, e.g. "\\x0b".
WhitespaceChars ==
    {" ", "\t", "\n", "\r", "\f", "\\x0b", "\\x1c", "\\x1d", "\\x1e", "\\x1f",
     "\\x85", "\\xa0", "\\u1680", "\\u2000", "\\u2001", "\\u2002", "\\u2003",
     "\\u2004", "\\u2005", "\\u2006", "\\u2007", "\\u2008", "\\u2009",
     "\\u200a", "\\u2028", "\\u2029", "\\u202f", "\\u205f", "\\u3000"}

\* str.strip()
RECURSIVE LStrip(_)
LStrip(text) ==
    IF text # <<>> /\ Head(text) \in WhitespaceChars THEN LStrip(Tail(text)) ELSE text
RECURSIVE RStrip(_)
RStrip(text) ==
    IF text # <<>> /\ text[Len(text)] \in WhitespaceChars
    THEN RStrip(SubSeq(text, 1, Len(text) - 1)) ELSE text
\* variant: only the leading whitespace is removed
Strip_LeftOnly(text) == LStrip(text)

Strip(text) == RStrip(LStrip(text))

\* ------------------------------------------------- the URL canonicalizer
\* Token classes of the regular expressions of _validate_and_convert_arxiv_url.
IdTokens == {"2401.12345", "2507.13334", "2309.00001"}   \* \d+\.\d+
VersionTokens == {"v1", "v2"}                              \* v\d+
WordTokens == {"abs", "pdf", "cs", "list", "paper"}        \* [a-z-]+
\* tokens whose text contains "arxiv.org"
ArxivTextTokens == {"arxiv.org", "export.arxiv.org", "arxiv.org.example.com"}
\* tokens whose text ends with "arxiv.org"
ArxivTailTokens == {"arxiv.org", "export.arxiv.org"}

\* (\d+\.\d+(?:v\d+)?) anchored at token i: the identifier with its version
IdAt(url, i) ==
    IF Tok(url, i) \in IdTokens
    THEN IF Tok(url, i + 1) \in VersionTokens
         THEN <<url[i], url[i + 1]>> ELSE <<url[i]>>
    ELSE <<>>

\* (?:\.pdf)?$ at token k
TailAt(url, k) == k = Len(url) + 1 \/ (k = Len(url) /\ url[k] = ".pdf")

\* arxiv\.org/(?:abs|pdf)/ starting at token i
PrefixAt(url, i) ==
    /\ Tok(url, i) \in ArxivTailTokens
    /\ Tok(url, i + 1) = "/"
    /\ Tok(url, i + 2) \in {"abs", "pdf"}
    /\ Tok(url, i + 3) = "/"

\* Each pattern: whether it matches at token i, and its group(1) there.
Pattern1At(url, i) == PrefixAt(url, i) /\ Tok(url, i + 4) \in IdTokens
Group1At(url, i) == IdAt(url, i + 4)
Pattern2At(url, i) ==
    /\ PrefixAt(url, i)
    /\ Tok(url, i + 4) \in WordTokens
    /\ Tok(url, i + 5) = "/"
    /\ Tok(url, i + 6) \in IdTokens
Group2At(url, i) == <<url[i + 4], "/">> \o IdAt(url, i + 6)
Pattern3At(url, i) ==
    /\ Tok(url, i) = "/"
    /\ Tok(url, i + 1) \in IdTokens
    /\ TailAt(url, i + 1 + Len(IdAt(url, i + 1)))
Group3At(url, i) == IdAt(url, i + 1)
Pattern4At(url, i) ==
    /\ Tok(url, i) = "/"
    /\ Tok(url, i + 1) \in WordTokens
    /\ Tok(url, i + 2) = "/"
    /\ Tok(url, i + 3) \in IdTokens
    /\ TailAt(url, i + 3 + Len(IdAt(url, i + 3)))
Group4At(url, i) == <<url[i + 1], "/">> \o IdAt(url, i + 3)

\* re.search: the leftmost position where pattern n matches, 0 when none
SearchPos(url, n) ==
    LET hits == {i \in 1..Len(url) :
                    CASE n = 1 -> Pattern1At(url, i)
                      [] n = 2 -> Pattern2At(url, i)
                      [] n = 3 -> Pattern3At(url, i)
                      [] n = 4 -> Pattern4At(url, i)}
    IN IF hits = {} THEN 0 ELSE CHOOSE i \in hits : \A j \in hits : i <= j

GroupOf(url, n, i) ==
    CASE n = 1 -> Group1At(url, i)
      [] n = 2 -> Group2At(url, i)
      [] n = 3 -> Group3At(url, i)
      [] n = 4 -> Group4At(url, i)

\* variant: the last pattern that matches gives the identifier
ExtractArxivId_LastPattern(url) ==
    LET matching == {n \in 1..4 : SearchPos(url, n) # 0}
    IN IF matching = {} THEN <<>>
       ELSE LET n == CHOOSE m \in matching : \A k \in matching : m >= k
            IN GroupOf(url, n, SearchPos(url, n))

\* for pattern in arxiv_patterns: ... break -- the first pattern that matches
ExtractArxivId(url) ==
    LET matching == {n \in 1..4 : SearchPos(url, n) # 0}
    IN IF matching = {} THEN <<>>
       ELSE LET n == CHOOSE m \in matching : \A k \in matching : m <= k
            IN GroupOf(url, n, SearchPos(url, n))

\* _validate_and_convert_arxiv_url: the canonical URL, or the ValueError raised
validate_and_convert_arxiv_url(url) ==
    IF url = <<>> THEN [ok |-> FALSE, error |-> "Empty URL provided"]
    ELSE IF Range(url) \cap ArxivTextTokens = {}
    THEN [ok |-> FALSE, error |-> "Non-arXiv domain"]
    ELSE IF ExtractArxivId(url) = <<>>
    THEN [ok |-> FALSE, error |-> "Could not extract arXiv ID"]
    ELSE [ok |-> TRUE,
          url |-> <<"https://", "arxiv.org", "/", "pdf", "/">> \o ExtractArxivId(url)]

\* ---------------------------------------------------- the composite scorer
Digits == {"0", "1", "2", "3", "4", "5", "6", "7", "8", "9"}
DigitVal(c) ==
    CASE c = "0" -> 0 [] c = "1" -> 1 [] c = "2" -> 2 [] c = "3" -> 3
      [] c = "4" -> 4 [] c = "5" -> 5 [] c = "6" -> 6 [] c = "7" -> 7
      [] c = "8" -> 8 [] c = "9" -> 9

RECURSIVE DigitsValue(_)
DigitsValue(s) ==
    IF s = <<>> THEN 0
    ELSE 10 * DigitsValue(SubSeq(s, 1, Len(s) - 1)) + DigitVal(s[Len(s)])

\* pub_date[:4]
Head4(s) == SubSeq(s, 1, Min(4, Len(s)))

\* int(text): Python strips the whitespace around the literal (all of
\* str.isspace but the four separators \x1c..\x1f), takes an optional sign,
\* and then digits in which single underscores may stand between digits.
\* The alphabet here is ASCII: the decimal digits of other scripts, which
\* int() also reads, are not among the modelled characters.
IntWhitespaceChars == WhitespaceChars \ {"\\x1c", "\\x1d", "\\x1e", "\\x1f"}
\* the literal without the whitespace around it
IntStrip(s) ==
    LET kept == {i \in 1..Len(s) : s[i] \notin IntWhitespaceChars}
    IN IF kept = {} THEN <<>>
       ELSE SubSeq(s, CHOOSE i \in kept : \A j \in kept : i <= j,
                      CHOOSE i \in kept : \A j \in kept : i >= j)
\* the literal without its surrounding whitespace and its sign
IntBody(s) ==
    LET t == IntStrip(s)
    IN IF t # <<>> /\ t[1] \in {"+", "-"} THEN Tail(t) ELSE t
\* t is an integer literal: an optional sign, then digits with single
\* underscores between them
IntLiteral(t) ==
    LET body == IF t # <<>> /\ t[1] \in {"+", "-"} THEN Tail(t) ELSE t
    IN /\ body # <<>>
       /\ body[1] \in Digits
       /\ body[Len(body)] \in Digits
       /\ \A k \in 1..Len(body) :
              /\ body[k] \in Digits \cup {"_"}
              /\ (body[k] = "_" => body[k + 1] \in Digits)
IntParses(s) == IntLiteral(IntStrip(s))
IntValue(s) ==
    LET magnitude == DigitsValue(SelectSeq(IntBody(s), LAMBDA c : c \in Digits))
    IN IF IntStrip(s)[1] = "-" THEN 0 - magnitude ELSE magnitude

\* ---- Python float arithmetic
\* A float is an IEEE-754 binary64: a sign, a 53-bit significand m and an
\* exponent e, with value m * 2^e.  Every operation gives the exact result
\* rounded to the nearest such number, ties to the even significand.  The
\* significand is a natural number of any size, held as a sequence of
\* 15-bit limbs, least significant first; <<>> is 0.
LimbBits == 15
Base == 32768
SignificandBits == 53

RECURSIVE Pow2(_)
Pow2(n) == IF n = 0 THEN 1 ELSE 2 * Pow2(n - 1)

RECURSIVE BigNorm(_)
BigNorm(a) ==
    IF a # <<>> /\ a[Len(a)] = 0 THEN BigNorm(SubSeq(a, 1, Len(a) - 1)) ELSE a
RECURSIVE BigOf(_)
BigOf(n) == IF n = 0 THEN <<>> ELSE <<n % Base>> \o BigOf(n \div Base)
RECURSIVE BigToInt(_)
BigToInt(a) == IF a = <<>> THEN 0 ELSE a[1] + Base * BigToInt(Tail(a))
Limb(a, i) == IF i \in 1..Len(a) THEN a[i] ELSE 0
Rest(a) == IF a = <<>> THEN <<>> ELSE Tail(a)

RECURSIVE BigAddC(_, _, _)
BigAddC(a, b, c) ==
    IF a = <<>> /\ b = <<>> THEN BigOf(c)
    ELSE LET sum == Limb(a, 1) + Limb(b, 1) + c
         IN <<sum % Base>> \o BigAddC(Rest(a), Rest(b), sum \div Base)
BigAdd(a, b) == BigAddC(a, b, 0)

\* a - b for a >= b
RECURSIVE BigSubB(_, _, _)
BigSubB(a, b, borrow) ==
    IF a = <<>> THEN <<>>
    ELSE LET d == a[1] - Limb(b, 1) - borrow
         IN <<IF d < 0 THEN d + Base ELSE d>>
                \o BigSubB(Tail(a), Rest(b), IF d < 0 THEN 1 ELSE 0)
BigSub(a, b) == BigNorm(BigSubB(a, b, 0))

\* -1, 0 or 1 as a < b, a = b or a > b
RECURSIVE BigCmpFrom(_, _, _)
BigCmpFrom(a, b, i) ==
    IF i = 0 THEN 0
    ELSE IF a[i] # b[i] THEN (IF a[i] < b[i] THEN -1 ELSE 1)
    ELSE BigCmpFrom(a, b, i - 1)
BigCmp(a, b) ==
    IF Len(a) # Len(b) THEN (IF Len(a) < Len(b) THEN -1 ELSE 1)
    ELSE BigCmpFrom(a, b, Len(a))

\* a * k for a limb-sized k
RECURSIVE BigMulSmallC(_, _, _)
BigMulSmallC(a, k, c) ==
    IF a = <<>> THEN BigOf(c)
    ELSE LET p == a[1] * k + c
         IN <<p % Base>> \o BigMulSmallC(Tail(a), k, p \div Base)
BigMulSmall(a, k) == BigNorm(BigMulSmallC(a, k, 0))

ShiftLimbs(a, n) == IF a = <<>> THEN <<>> ELSE [i \in 1..n |-> 0] \o a
DropLimbs(a, n) == IF n >= Len(a) THEN <<>> ELSE SubSeq(a, n + 1, Len(a))

RECURSIVE BigMul(_, _)
BigMul(a, b) ==
    IF b = <<>> THEN <<>>
    ELSE BigAdd(BigMulSmall(a, b[1]), ShiftLimbs(BigMul(a, Tail(b)), 1))

\* the quotient and the remainder of a by a limb-sized k > 0
RECURSIVE BigDivModSmall(_, _)
BigDivModSmall(a, k) ==
    IF a = <<>> THEN [q |-> <<>>, r |-> 0]
    ELSE LET hi == BigDivModSmall(Tail(a), k)
             cur == hi.r * Base + a[1]
         IN [q |-> BigNorm(<<cur \div k>> \o hi.q), r |-> cur % k]

\* a * 2^n, and the whole part of a / 2^n
BigShl(a, n) == ShiftLimbs(BigMulSmall(a, Pow2(n % LimbBits)), n \div LimbBits)
BigShr(a, n) == BigDivModSmall(DropLimbs(a, n \div LimbBits), Pow2(n % LimbBits)).q

RECURSIVE SmallBitLen(_)
SmallBitLen(k) == IF k = 0 THEN 0 ELSE 1 + SmallBitLen(k \div 2)
BitLen(a) ==
    IF a = <<>> THEN 0 ELSE LimbBits * (Len(a) - 1) + SmallBitLen(a[Len(a)])

\* a / 2^n rounded to the nearest whole number, ties to even
RoundShift(a, n) ==
    IF n = 0 THEN a
    ELSE LET q == BigShr(a, n)
             rem == BigSub(a, BigShl(q, n))
             c == BigCmp(rem, BigShl(<<1>>, n - 1))
         IN IF c > 0 \/ (c = 0 /\ Limb(q, 1) % 2 = 1) THEN BigAdd(q, <<1>>) ELSE q

FloatZero == [neg |-> FALSE, m |-> <<>>, e |-> 0]

\* the float nearest to (-1)^neg * x * 2^e
MakeFloat(neg, x, e) ==
    IF x = <<>> THEN FloatZero
    ELSE LET n == BitLen(x)
         IN IF n <= SignificandBits
            THEN [neg |-> neg, m |-> BigShl(x, SignificandBits - n),
                  e |-> e - (SignificandBits - n)]
            ELSE LET q == RoundShift(x, n - SignificandBits)
                 IN IF BitLen(q) > SignificandBits
                    THEN [neg |-> neg, m |-> BigShr(q, 1),
                          e |-> e + (n - SignificandBits) + 1]
                    ELSE [neg |-> neg, m |-> q, e |-> e + (n - SignificandBits)]

\* float(n) of an int
FloatOfInt(n) == MakeFloat(n < 0, BigOf(IF n < 0 THEN 0 - n ELSE n), 0)

\* x / k for a float x and an int k > 0.  The quotient is taken with 70 extra
\* bits and one more bit that says whether anything was left over.
FloatDivInt(x, k) ==
    LET d == BigDivModSmall(BigShl(x.m, 70), k)
        sticky == IF d.r = 0 THEN <<>> ELSE <<1>>
    IN MakeFloat(x.neg, BigAdd(BigMulSmall(d.q, 2), sticky), x.e - 71)

FloatMul(x, y) == MakeFloat(x.neg # y.neg, BigMul(x.m, y.m), x.e + y.e)

FloatNeg(x) == IF x.m = <<>> THEN x ELSE [x EXCEPT !.neg = ~x.neg]

FloatAdd(x, y) ==
    IF x.m = <<>> THEN y
    ELSE IF y.m = <<>> THEN x
    ELSE LET low == IF x.e < y.e THEN x.e ELSE y.e
             a == BigShl(x.m, x.e - low)
             b == BigShl(y.m, y.e - low)
             c == BigCmp(a, b)
         IN IF x.neg = y.neg THEN MakeFloat(x.neg, BigAdd(a, b), low)
            ELSE IF c = 0 THEN FloatZero
            ELSE IF c > 0 THEN MakeFloat(x.neg, BigSub(a, b), low)
            ELSE MakeFloat(y.neg, BigSub(b, a), low)

FloatSub(x, y) == FloatAdd(x, FloatNeg(y))

\* x < y
FloatLess(x, y) ==
    LET d == FloatSub(x, y) IN d.m # <<>> /\ d.neg

\* min(x, y) and max(x, y), which give the first argument on a tie
FloatMin(x, y) == IF FloatLess(y, x) THEN y ELSE x
FloatMax(x, y) == IF FloatLess(x, y) THEN y ELSE x

\* the float a decimal literal num/den denotes, e.g. 0.4 is FloatLit(4, 10)
FloatLit(num, den) == FloatDivInt(FloatOfInt(num), den)

\* round(x, ndigits) for scale = 10^ndigits, as the whole number of 1/scale
\* units in the result: round() goes by the exact binary value of x, ties to
\* even.
FloatRound(x, scale) ==
    LET scaled == BigMulSmall(x.m, scale)
        units == BigToInt(IF x.e >= 0 THEN BigShl(scaled, x.e)
                          ELSE RoundShift(scaled, 0 - x.e))
    IN IF x.neg THEN 0 - units ELSE units

\* ---- _calculate_composite_score
\* min(citations / 100, 1.0) * 0.4
CitationPart(paper) ==
    LET citations == Get(paper, "citations", 0)
        citation_score == FloatMin(FloatDivInt(FloatOfInt(citations), 100),
                                   FloatOfInt(1))
    IN FloatMul(citation_score, FloatLit(4, 10))

\* min((social_mentions + github_stars / 100) / 50, 1.0) * 0.3
SocialPart(paper) ==
    LET social_mentions == Get(paper, "social_mentions", 0)
        github_stars == Get(paper, "github_stars", 0)
        social_score ==
            FloatMin(FloatDivInt(FloatAdd(FloatOfInt(social_mentions),
                                          FloatDivInt(FloatOfInt(github_stars), 100)),
                                 50),
                     FloatOfInt(1))
    IN FloatMul(social_score, FloatLit(3, 10))

\* min(author_hindex / 50, 1.0) * 0.2
AuthorityPart(paper) ==
    LET author_hindex == Get(paper, "author_hindex", 0)
        authority_score == FloatMin(FloatDivInt(FloatOfInt(author_hindex), 50),
                                    FloatOfInt(1))
    IN FloatMul(authority_score, FloatLit(2, 10))

\* max(0, 1 - (current_year - pub_year) / 10) * 0.1
RecencyOfYear(pub_year) ==
    LET recency == FloatSub(FloatOfInt(1),
                            FloatDivInt(FloatOfInt(current_year - pub_year), 10))
    IN FloatMul(FloatMax(FloatZero, recency), FloatLit(1, 10))

\* variant: a date that does not parse gives no recency credit
RecencyPart_NoFallback(paper) ==
    LET pub_date == Get(paper, "publication_date", <<>>)
    IN IF pub_date = <<>> THEN FloatZero
       ELSE IF IntParses(Head4(pub_date))
       THEN RecencyOfYear(IntValue(Head4(pub_date)))
       ELSE FloatZero

\* what the recency block adds to the score: nothing without a date, the
\* weighted recency of the year when the first four characters are an int
\* literal, and 0.05 when they are not
RecencyPart(paper) ==
    LET pub_date == Get(paper, "publication_date", <<>>)
    IN IF pub_date = <<>> THEN FloatZero
       ELSE IF IntParses(Head4(pub_date))
       THEN RecencyOfYear(IntValue(Head4(pub_date)))
       ELSE FloatLit(5, 100)

\* _calculate_composite_score: round(score, 3), in thousandths
calculate_composite_score(paper) ==
    LET score == FloatAdd(FloatAdd(FloatAdd(FloatAdd(FloatZero,
                                                     CitationPart(paper)),
                                            SocialPart(paper)),
                                   AuthorityPart(paper)),
                          RecencyPart(paper))
    IN FloatRound(score, 1000)

\* ------------------------------------------ the backend and its candidates
\* URLs a backend response may carry
U_abs1 == <<"https://", "arxiv.org", "/", "abs", "/", "2401.12345">>
U_pdf1 == <<"https://", "arxiv.org", "/", "pdf", "/", "2401.12345", ".pdf">>
U_pdf2 == <<"https://", "arxiv.org", "/", "pdf", "/", "2507.13334", "v2">>
U_abs3 == <<"https://", "arxiv.org", "/", "abs", "/", "cs", "/", "2309.00001">>
U_other == <<"https://", "example.com", "/", "paper", ".pdf">>
U_noid == <<"https://", "arxiv.org", "/", "list", "/", "cs">>

\* publication dates: "2020-05-01", "2025-09-30", "n.d."
D2020 == <<"2", "0", "2", "0", "-", "0", "5", "-", "0", "1">>
D2025 == <<"2", "0", "2", "5", "-", "0", "9", "-", "3", "0">>
DNone == <<"n", ".", "d", ".">>

\* ---- JSON values
\* What json.loads gives for a value of the response body: the Python type
\* and the value, held in a field named after the type.  The types here are
\* str, int, bool, float and dict.
JStr(s) == [t |-> "str", str |-> s]
JInt(n) == [t |-> "int", int |-> n]
JBool(b) == [t |-> "bool", bool |-> b]
JFloat(x) == [t |-> "float", float |-> x]
JObj(d) == [t |-> "dict", dict |-> d]

\* not value
Falsy(value) ==
    \/ value.t = "str" /\ value.str = <<>>
    \/ value.t = "int" /\ value.int = 0
    \/ value.t = "bool" /\ ~value.bool
    \/ value.t = "float" /\ value.float.m = <<>>
    \/ value.t = "dict" /\ DOMAIN value.dict = {}

\* an int field holds a number of 64 bits: its size is below 2^63
Int64Bits == 63

\* candidates (the elements of response_dict['papers'])
\* the citation count 10 comes as the float 10.0 and as the text "10.0"
CandA_abs == JObj([url |-> JStr(U_abs1), title |-> JStr(<<"A">>),
                   publication_date |-> JStr(D2020),
                   citation_number |-> JFloat(FloatOfInt(10))])
CandA_pdf == JObj([url |-> JStr(U_pdf1), title |-> JStr(<<"A">>),
                   publication_date |-> JStr(D2020),
                   citation_number |-> JStr(<<"1", "0", ".", "0">>)])
\* the citation count comes as the text "250"; the score 0.9 is an extra key
CandB == JObj([url |-> JStr(U_pdf2), title |-> JStr(<<"B">>),
               publication_date |-> JStr(D2025),
               citation_number |-> JStr(<<"2", "5", "0">>),
               composite_score |-> JFloat(FloatLit(9, 10))])
\* the citation count comes as false, which an int field reads as 0
CandC == JObj([url |-> JStr(U_abs3), title |-> JStr(<<"C">>),
               publication_date |-> JStr(DNone),
               citation_number |-> JBool(FALSE)])
CandOther == JObj([url |-> JStr(U_other), title |-> JStr(<<"D">>),
                   publication_date |-> JStr(D2025), citation_number |-> JInt(5)])
CandNoId == JObj([url |-> JStr(U_noid), title |-> JStr(<<"E">>),
                  publication_date |-> JStr(D2025), citation_number |-> JInt(5)])
CandNoUrl == JObj([title |-> JStr(<<"F">>), publication_date |-> JStr(D2025),
                   citation_number |-> JInt(5)])
CandNoCit == JObj([url |-> JStr(U_abs3), title |-> JStr(<<"C">>),
                   publication_date |-> JStr(DNone)])
\* wrongly typed fields: citation_number "many", citation_number the float
\* 2^63 (9.223372036854776e+18), title 7
CandBadCit == JObj([url |-> JStr(U_abs3), title |-> JStr(<<"C">>),
                    publication_date |-> JStr(DNone),
                    citation_number |-> JStr(<<"m", "a", "n", "y">>)])
CandHugeCit == JObj([url |-> JStr(U_abs3), title |-> JStr(<<"C">>),
                     publication_date |-> JStr(DNone),
                     citation_number |-> JFloat(MakeFloat(FALSE, <<1>>, Int64Bits))])
CandNumTitle == JObj([url |-> JStr(U_abs3), title |-> JInt(7),
                      publication_date |-> JStr(DNone),
                      citation_number |-> JInt(0)])
\* a url that is the number 5, and a candidate that is the text "x"
CandNumUrl == JObj([url |-> JInt(5), title |-> JStr(<<"G">>),
                    publication_date |-> JStr(D2025), citation_number |-> JInt(5)])
CandNotObject == JStr(<<"x">>)

Candidates == {CandA_abs, CandA_pdf, CandB, CandC, CandOther, CandNoId,
               CandNoUrl, CandNoCit, CandBadCit, CandHugeCit, CandNumTitle,
               CandNumUrl, CandNotObject}

\* the candidates that are well-formed and carry an arXiv URL
SoundCandidates == {CandA_abs, CandA_pdf, CandB, CandC}

\* the responses tried: up to MaxBatch candidates, at most one of them
\* outside SoundCandidates
Batches ==
    {b \in UNION {[1..n -> Candidates] : n \in 0..MaxBatch} :
        Cardinality({i \in 1..Len(b) : b[i] \notin SoundCandidates}) <= 1}

\* the ways the backend call of one iteration fails: create() raises, gives no
\* choice or no content, or gives a body that is not JSON or that holds no
\* "papers" key (an object without the key; a number, true, false or null)
BackendFailureKinds == {"backend_raises", "backend_raises_json", "no_choices",
                        "empty_content", "unparseable", "not_a_container",
                        "missing_papers"}
\* the failures met before the validation loop: those of the backend call,
\* and a "papers" value that cannot be iterated (null or a number; line 190)
ResponseFailureKinds == BackendFailureKinds \cup {"papers_not_iterable"}
\* the ways search_papers fails on one candidate of a "papers" list: the
\* candidate is not an object (line 193), or its url is a number (line 92)
CandidateFailureKinds == {"candidate_not_object", "url_not_text"}
\* the ways one iteration fails, with the exception search_papers raises
FailureKinds == ResponseFailureKinds \cup CandidateFailureKinds
RaisedFor(kind) ==
    CASE kind = "backend_raises" -> "BackendError"
         \* create() raised; re-raised as it is at line 221
      [] kind = "backend_raises_json" -> "ValueError"
         \* create() raised json.JSONDecodeError; line 218
      [] kind = "no_choices" -> "ValueError"             \* line 175
      [] kind = "empty_content" -> "ValueError"          \* line 180
      [] kind = "unparseable" -> "ValueError"            \* line 218
      [] kind = "not_a_container" -> "TypeError"
         \* the body is a number, true, false or null; line 185
      [] kind = "missing_papers" -> "ValueError"         \* line 186
      [] kind = "papers_not_iterable" -> "TypeError"
         \* "papers" is null or a number; line 190
      [] kind = "candidate_not_object" -> "AttributeError"
         \* paper_data.get; line 192
      [] kind = "url_not_text" -> "TypeError"
         \* 'arxiv.org' not in url; line 92

\* the failures of ResponseFailureKinds met after validated_papers = []
\* (line 189): the for statement of line 190 cannot iterate the value
AfterListReset == {"papers_not_iterable"}

NoResponse == [kind |-> "none"]
NoResult == [kind |-> "none"]

\* ------------------------------------------------------------ search_papers
SearchedPaperFields == {"url", "title", "publication_date", "citation_number"}

\* a str field takes a str only
StrField(value) == value.t = "str"

\* ---- an int field (pydantic, lax mode)
\* It takes an int; a bool (False is 0, True is 1); a float without a
\* fraction that lies strictly between -2^63 and 2^63; and a str that reads
\* as an integer in the way of StrAsInt.
FloatIsWhole(x) ==
    \/ x.m = <<>>
    \/ x.e >= 0
    \/ BigShl(BigShr(x.m, 0 - x.e), 0 - x.e) = x.m
FloatInInt64(x) == x.m = <<>> \/ BitLen(x.m) + x.e <= Int64Bits
FloatWhole(x) ==
    LET magnitude == BigToInt(IF x.e >= 0 THEN BigShl(x.m, x.e)
                              ELSE BigShr(x.m, 0 - x.e))
    IN IF x.neg THEN 0 - magnitude ELSE magnitude

NoText == [ok |-> FALSE]
Text(t) == [ok |-> TRUE, text |-> t]
\* the text without its one leading sign; a second sign after it is refused
StripSign(t) ==
    IF t # <<>> /\ t[1] \in {"+", "-"}
    THEN IF Len(t) >= 2 /\ t[2] \in {"+", "-"} THEN NoText ELSE Text(Tail(t))
    ELSE Text(t)
\* the text from its first character that is neither a leading zero nor an
\* underscore among the leading zeros: a digit 1-9 or a "-" starts the rest, a
\* "." keeps the character before it, anything else is refused; a text of
\* zeros and underscores only leaves its last character
StripLeadingZeros(u) ==
    IF u = <<>> \/ u[1] \notin Digits THEN NoText
    ELSE IF u[1] # "0" THEN Text(u)
    ELSE LET others == {i \in 2..Len(u) : u[i] \notin {"0", "_"}}
             stop == CHOOSE i \in others : \A j \in others : i <= j
         IN IF others = {} THEN Text(<<u[Len(u)]>>)
            ELSE IF u[stop] \in (Digits \ {"0"}) \cup {"-"}
            THEN Text(SubSeq(u, stop, Len(u)))
            ELSE IF u[stop] = "." THEN Text(SubSeq(u, stop - 1, Len(u)))
            ELSE NoText
\* the text before the first "." when one or more zeros, and nothing else,
\* follow it ("10.0"; "10." and "10.5" are refused)
StripDecimalZeros(t) ==
    LET dots == {i \in 1..Len(t) : t[i] = "."}
        first == CHOOSE i \in dots : \A j \in dots : i <= j
    IN IF dots = {} THEN Text(t)
       ELSE IF first < Len(t) /\ \A k \in (first + 1)..Len(t) : t[k] = "0"
       THEN Text(SubSeq(t, 1, first - 1))
       ELSE NoText
\* the text without its underscores; one at either end, or two in a row, is
\* refused
StripUnderscores(t) ==
    IF \/ t # <<>> /\ (t[1] = "_" \/ t[Len(t)] = "_")
       \/ \E k \in 1..(Len(t) - 1) : t[k] = "_" /\ t[k + 1] = "_"
    THEN NoText
    ELSE Text(SelectSeq(t, LAMBDA c : c # "_"))
\* a number as the last step reads it: an optional "-", then 0 or digits that
\* do not begin with 0
PlainInt(t) ==
    LET digits == IF t # <<>> /\ t[1] = "-" THEN Tail(t) ELSE t
    IN /\ digits # <<>>
       /\ \A k \in 1..Len(digits) : digits[k] \in Digits
       /\ (digits[1] = "0" => Len(digits) = 1)
\* the number a str is read as: the whitespace around it is dropped, then the
\* sign, the leading zeros, the fraction of zeros and the underscores, and the
\* sign is put back
StrAsIntText(s) ==
    LET trimmed == IntStrip(s)
        unsigned == StripSign(trimmed)
        nonzero == IF unsigned.ok THEN StripLeadingZeros(unsigned.text) ELSE NoText
        whole == IF nonzero.ok THEN StripDecimalZeros(nonzero.text) ELSE NoText
        plain == IF whole.ok THEN StripUnderscores(whole.text) ELSE NoText
    IN IF ~plain.ok THEN NoText
       ELSE IF trimmed[1] = "-" THEN Text(<<"-">> \o plain.text)
       ELSE plain
StrAsInt(s) ==
    LET t == StrAsIntText(s)
    IN IF t.ok /\ PlainInt(t.text)
       THEN [ok |-> TRUE,
             int |-> IF t.text[1] = "-" THEN 0 - DigitsValue(Tail(t.text))
                     ELSE DigitsValue(t.text)]
       ELSE [ok |-> FALSE]
IntField(value) ==
    \/ value.t \in {"int", "bool"}
    \/ value.t = "float" /\ FloatIsWhole(value.float)
                         /\ FloatInInt64(value.float)
    \/ value.t = "str" /\ StrAsInt(value.str).ok
IntFieldValue(value) ==
    IF value.t = "int" THEN value.int
    ELSE IF value.t = "bool" THEN (IF value.bool THEN 1 ELSE 0)
    ELSE IF value.t = "float" THEN FloatWhole(value.float)
    ELSE StrAsInt(value.str).int

\* SearchedPaper.model_validate of a dict: every declared field is required
\* and must have, or convert to, its declared type; any other key of the
\* input is ignored.  A failure is a ValidationError, which is a ValueError.
model_validate(paper_data) ==
    IF /\ SearchedPaperFields \subseteq DOMAIN paper_data
       /\ StrField(paper_data.url)
       /\ StrField(paper_data.title)
       /\ StrField(paper_data.publication_date)
       /\ IntField(paper_data.citation_number)
    THEN [ok |-> TRUE,
          paper |-> [url |-> paper_data.url.str,
                     title |-> paper_data.title.str,
                     publication_date |-> paper_data.publication_date.str,
                     citation_number |-> IntFieldValue(paper_data.citation_number)]]
    ELSE [ok |-> FALSE, raised |-> "ValidationError"]

\* paper_data['url'] = canonical
WithUrl(paper_data, canonical) ==
    [k \in DOMAIN paper_data \cup {"url"} |->
        IF k = "url" THEN JStr(canonical) ELSE paper_data[k]]

\* _validate_and_convert_arxiv_url on the value paper_data.get('url', ''):
\* a falsy value is an empty URL, and a number fails the test
\* 'arxiv.org' not in url with a TypeError
CanonicalOf(url) ==
    IF url.t = "str"
    THEN LET c == validate_and_convert_arxiv_url(url.str)
         IN IF c.ok THEN c ELSE [ok |-> FALSE, raised |-> "ValueError"]
    ELSE IF Falsy(url) THEN [ok |-> FALSE, raised |-> "ValueError"]
    ELSE IF url.t = "dict" /\ "arxiv.org" \notin DOMAIN url.dict
    THEN [ok |-> FALSE, raised |-> "ValueError"]
    ELSE [ok |-> FALSE, raised |-> "TypeError"]

\* variant: the URL is validated but the candidate keeps the URL it came with
ValidateOne_KeepRawUrl(paper_data) ==
    IF paper_data.t # "dict" THEN [ok |-> FALSE, raised |-> "AttributeError"]
    ELSE LET c == CanonicalOf(Get(paper_data.dict, "url", JStr(<<>>)))
         IN IF c.ok THEN model_validate(paper_data.dict)
            ELSE [ok |-> FALSE, raised |-> c.raised]

\* the body of the try of the validation loop for one candidate: the paper
\* to append, or the exception raised
ValidateOne(paper_data) ==
    IF paper_data.t # "dict" THEN [ok |-> FALSE, raised |-> "AttributeError"]
    ELSE LET c == CanonicalOf(Get(paper_data.dict, "url", JStr(<<>>)))
         IN IF c.ok THEN model_validate(WithUrl(paper_data.dict, c.url))
            ELSE [ok |-> FALSE, raised |-> c.raised]

\* except ValueError as e: what the validation loop catches
CaughtInLoop == {"ValueError", "ValidationError"}

\* variant: the validation loop stops at the first candidate it drops
AfterDrop_Break(index, n) == n

\* continue: the position of the loop after a dropped candidate
AfterDrop(index, n) == index + 1

\* key=lambda x: x.composite_score if hasattr(x, 'composite_score') else 0
sort_key(x) == IF "composite_score" \in DOMAIN x THEN x.composite_score ELSE 0

\* list.sort(key=..., reverse=True): stable, descending
RECURSIVE InsertDesc(_, _)
InsertDesc(sorted, x) ==
    IF sorted = <<>> THEN <<x>>
    ELSE IF sort_key(Head(sorted)) >= sort_key(x)
    THEN <<Head(sorted)>> \o InsertDesc(Tail(sorted), x)
    ELSE <<x>> \o sorted
RECURSIVE SortDesc(_)
SortDesc(s) ==
    IF s = <<>> THEN <<>>
    ELSE InsertDesc(SortDesc(SubSeq(s, 1, Len(s) - 1)), s[Len(s)])

\* a variant of the merge that marks the accepted URLs as seen only after
\* the whole batch
RECURSIVE MergeInto_LateMark(_, _, _)
MergeInto_LateMark(final, seen, validated) ==
    IF validated = <<>>
    THEN [final |-> final, seen |-> seen \cup {final[i].url : i \in 1..Len(final)}]
    ELSE LET paper == Head(validated)
         IN IF paper.url \notin seen
            THEN MergeInto_LateMark(Append(final, paper), seen, Tail(validated))
            ELSE MergeInto_LateMark(final, seen, Tail(validated))

\* variant: a new paper is put at the front of the final list
RECURSIVE MergeInto_Prepend(_, _, _)
MergeInto_Prepend(final, seen, validated) ==
    IF validated = <<>> THEN [final |-> final, seen |-> seen]
    ELSE LET paper == Head(validated)
         IN IF paper.url \notin seen
            THEN MergeInto_Prepend(<<paper>> \o final, seen \cup {paper.url},
                                   Tail(validated))
            ELSE MergeInto_Prepend(final, seen, Tail(validated))

\* for paper in validated_papers: if paper.url not in seen_urls: ...
RECURSIVE MergeInto(_, _, _)
MergeInto(final, seen, validated) ==
    IF validated = <<>> THEN [final |-> final, seen |-> seen]
    ELSE LET paper == Head(validated)
         IN IF paper.url \notin seen
            THEN MergeInto(Append(final, paper), seen \cup {paper.url},
                           Tail(validated))
            ELSE MergeInto(final, seen, Tail(validated))

\* variant: the loop goes on while attempts remain, whatever the list holds
LoopCondition_AttemptsOnly == exhausted_cycles > 0

\* while len(final_papers) < max_results and exhausted_cycles > 0
LoopCondition == Len(final_papers) < max_results /\ exhausted_cycles > 0

\* a variant that charges an attempt only to an iteration that accepted a paper
CyclesAfterIteration_OnlyProductive(cycles, accepted) ==
    IF accepted = 0 THEN cycles ELSE cycles - 1

\* the value of exhausted_cycles after an iteration that completed
CyclesAfterIteration(cycles, accepted) == cycles - 1

SearchInit ==
    /\ pc = "loop"
    /\ max_results \in -1..MaxResults
    /\ final_papers = <<>>
    /\ seen_urls = {}
    /\ exhausted_cycles = InitialCycles
    /\ url_list = {}
    /\ requests = 0
    /\ response = NoResponse
    /\ validated_papers = <<>>
    /\ paper_index = 0
    /\ only_fresh = TRUE
    /\ result = NoResult

\* variant: the exclusion list of the first request is sent again
SearchRequest_StaleList ==
    /\ pc = "loop"
    /\ LoopCondition
    /\ pc' = "awaiting"
    /\ url_list' = url_list
    /\ requests' = requests + 1
    /\ response' = NoResponse
    /\ UNCHANGED <<max_results, final_papers, seen_urls, exhausted_cycles,
                   validated_papers, paper_index, only_fresh, result>>
    /\ UNCHANGED <<sumVars, canonVars, scoreVars>>

\* the loop test passes: build the prompt and call the backend
SearchRequest ==
    /\ pc = "loop"
    /\ LoopCondition
    /\ pc' = "awaiting"
    /\ url_list' = seen_urls
    /\ requests' = requests + 1
    /\ response' = NoResponse
    /\ UNCHANGED <<max_results, final_papers, seen_urls, exhausted_cycles,
                   validated_papers, paper_index, only_fresh, result>>
    /\ UNCHANGED <<sumVars, canonVars, scoreVars>>

\* a variant that absorbs the failure as an iteration without papers
OnFailure_Swallow(kind) ==
    /\ pc' = "loop"
    /\ response' = [kind |-> kind]
    /\ exhausted_cycles' = exhausted_cycles - 1
    /\ only_fresh' = FALSE
    /\ validated_papers' = IF kind \in AfterListReset THEN <<>>
                           ELSE validated_papers
    /\ UNCHANGED <<max_results, final_papers, seen_urls, url_list, requests,
                   paper_index, result>>
    /\ UNCHANGED <<sumVars, canonVars, scoreVars>>

\* what search_papers does when an iteration fails in way `kind`: the
\* exception leaves the call (lines 216-221)
OnFailure(kind) ==
    /\ pc' = "raised"
    /\ response' = [kind |-> kind]
    /\ result' = [kind |-> "raise", error |-> RaisedFor(kind)]
    /\ only_fresh' = FALSE
    /\ validated_papers' = IF kind \in AfterListReset THEN <<>>
                           ELSE validated_papers
    /\ UNCHANGED <<max_results, final_papers, seen_urls, exhausted_cycles,
                   url_list, requests, paper_index>>
    /\ UNCHANGED <<sumVars, canonVars, scoreVars>>

\* the backend call raises, or its response cannot be used
ResponseFails ==
    /\ pc = "awaiting"
    /\ \E kind \in ResponseFailureKinds : OnFailure(kind)

\* the backend answers with a list of candidates: validated_papers = []
ResponsePapers ==
    /\ pc = "awaiting"
    /\ \E batch \in Batches : response' = [kind |-> "papers", papers |-> batch]
    /\ validated_papers' = <<>>
    /\ paper_index' = 0
    /\ pc' = "validating"
    /\ UNCHANGED <<max_results, final_papers, seen_urls, exhausted_cycles,
                   url_list, requests, only_fresh, result>>
    /\ UNCHANGED <<sumVars, canonVars, scoreVars>>

\* one turn of the validation loop: the candidate is appended (and the loop
\* sleeps 0.5 s), or dropped, or its exception leaves the call
ValidateCandidate ==
    /\ pc = "validating"
    /\ paper_index < Len(response.papers)
    /\ LET v == ValidateOne(response.papers[paper_index + 1])
       IN IF v.ok
          THEN /\ validated_papers' = Append(validated_papers, v.paper)
               /\ paper_index' = paper_index + 1
               /\ UNCHANGED <<pc, max_results, final_papers, seen_urls,
                              exhausted_cycles, url_list, requests, response,
                              only_fresh, result>>
               /\ UNCHANGED <<sumVars, canonVars, scoreVars>>
          ELSE IF v.raised \in CaughtInLoop
          THEN /\ paper_index' = AfterDrop(paper_index, Len(response.papers))
               /\ UNCHANGED <<pc, max_results, final_papers, seen_urls,
                              exhausted_cycles, url_list, requests, response,
                              validated_papers, only_fresh, result>>
               /\ UNCHANGED <<sumVars, canonVars, scoreVars>>
          ELSE OnFailure(IF v.raised = "AttributeError"
                         THEN "candidate_not_object" ELSE "url_not_text")

\* after the validation loop: sort, merge, exhausted_cycles -= 1.
\* only_fresh records whether every candidate of every response so far was
\* valid and was accepted as a new paper.
MergeBatch ==
    /\ pc = "validating"
    /\ paper_index = Len(response.papers)
    /\ LET sorted == SortDesc(validated_papers)
           merged == MergeInto(final_papers, seen_urls, sorted)
       IN /\ validated_papers' = sorted
          /\ final_papers' = merged.final
          /\ seen_urls' = merged.seen
          /\ exhausted_cycles' =
                CyclesAfterIteration(exhausted_cycles,
                                     Len(merged.final) - Len(final_papers))
          /\ only_fresh' =
                (only_fresh
                 /\ Len(merged.final) = Len(final_papers) + Len(response.papers))
    /\ pc' = "loop"
    /\ UNCHANGED <<max_results, url_list, requests, response, paper_index,
                   result>>
    /\ UNCHANGED <<sumVars, canonVars, scoreVars>>

\* the loop test fails: return final_papers
Return ==
    /\ pc = "loop"
    /\ ~LoopCondition
    /\ pc' = "returned"
    /\ result' = [kind |-> "list", papers |-> final_papers]
    /\ UNCHANGED <<max_results, final_papers, seen_urls, exhausted_cycles,
                   url_list, requests, response, validated_papers,
                   paper_index, only_fresh>>
    /\ UNCHANGED <<sumVars, canonVars, scoreVars>>

\* ========================================================= PaperSummarizer
\* Text here is a sequence of one-character strings, except that a markup tag
\* or a JSON lexeme of a Generation Service response is one piece.
level == <<"e", "x", "p", "e", "r", "t">>
language == <<"e", "n">>

\* ---- _sanitize_filename, _generate_output_filename
InvalidFilenameChars == {"<", ">", ":", "\"", "/", "\\", "|", "?", "*"}

\* re.sub(r'\s+', '_', text)
RECURSIVE CollapseWhitespace(_)
CollapseWhitespace(text) ==
    IF text = <<>> THEN <<>>
    ELSE IF Head(text) \in WhitespaceChars
    THEN IF Len(text) > 1 /\ text[2] \in WhitespaceChars
         THEN CollapseWhitespace(Tail(text))
         ELSE <<"_">> \o CollapseWhitespace(Tail(text))
    ELSE <<Head(text)>> \o CollapseWhitespace(Tail(text))

sanitize_filename(filename) ==
    LET removed == SelectSeq(filename, LAMBDA c : c \notin InvalidFilenameChars)
        sanitized == CollapseWhitespace(removed)
    IN IF Len(sanitized) > MaxFilenameLen
       THEN SubSeq(sanitized, 1, MaxFilenameLen) ELSE sanitized

generate_output_filename(paper_title, lang, lvl) ==
    sanitize_filename(paper_title) \o <<"-">> \o sanitize_filename(lang)
        \o <<"-">> \o sanitize_filename(lvl) \o <<".", "h", "t", "m", "l">>

\* ---- _validate_html_response
MarkupPieces == {"<div>", "</div>", "<p>", "</p>", "<div class=\"paper-summary\">"}
T_markup == <<"<div>", "h", "i", "</div>">>
\* " hi\r\n": plain text with whitespace around it and a CRLF line end
T_plain == <<" ", "h", "i", "\r", "\n">>
T_json == <<"{", "\"summary\"", ":", "\"<p>s</p>\"", "}">>
\* "<3": text that begins with "<" and is no markup
T_lt == <<"<", "3">>
\* "\n<p>s</p> ": markup with whitespace around it
T_padded == <<"\n", "<p>", "s", "</p>", " ">>
ResponseTexts == {T_markup, T_plain, T_json, T_lt, T_padded}

\* json.loads: the texts that are JSON documents, and the object each parses to
JsonTexts == {T_json}
JsonLoads(text) == [summary |-> <<"<p>", "s", "</p>">>]

\* str.startswith('<')
StartsWithLt(text) == text # <<>> /\ text[1] \in MarkupPieces \cup {"<"}

validate_html_response(text) ==
    LET stripped == Strip(text)
        cleaned_text == IF ~StartsWithLt(stripped)
                        THEN <<"<div class=\"paper-summary\">">> \o stripped
                                 \o <<"</div>">>
                        ELSE stripped
    IN IF cleaned_text \in JsonTexts
       THEN [html_summary |-> Get(JsonLoads(cleaned_text), "summary", cleaned_text),
             metadata |-> JsonLoads(cleaned_text)]
       ELSE [html_summary |-> cleaned_text, metadata |-> [format |-> "html"]]

\* ---- the paper objects given to summarize_papers
\* A paper object is held as the record of its attributes.  The titles "A B"
\* and "A:  B" differ; one paper has no title and one has no url.
PaperAB == [url |-> <<"https://", "arxiv.org", "/", "pdf", "/", "2401.12345">>,
            title |-> <<"A", " ", "B">>]
PaperAColonB == [url |-> <<"https://", "arxiv.org", "/", "pdf", "/", "2309.00001">>,
                 title |-> <<"A", ":", " ", " ", "B">>]
PaperUntitled == [url |-> <<"https://", "arxiv.org", "/", "pdf", "/", "2507.13334", "v2">>]
PaperNoUrl == [title |-> <<"E">>]
PaperC == [url |-> <<"https://", "example.com", "/", "paper", ".pdf">>,
           title |-> <<"C">>]
PaperD == [url |-> <<"https://", "arxiv.org", "/", "abs", "/", "2401.12345">>,
           title |-> <<"D">>]
\* the lists of papers tried: the first papers of one of these
PaperPool == {<<PaperAB, PaperAColonB>>,
              <<PaperUntitled, PaperNoUrl>>,
              <<PaperNoUrl, PaperC, PaperD>>}

\* ---- what the collaborators of one _summarize_single_paper call may do
\* client.get(paper.url) and response.raise_for_status(): the exception raised
FetchOutcomes == {"ok", "HTTPStatusError", "ConnectTimeout", "InvalidURL"}
\* for a paper without url, paper.url raises AttributeError and no request is
\* made
FetchOutcomesOf(paper) ==
    IF "url" \in DOMAIN paper THEN FetchOutcomes ELSE {"AttributeError"}
\* variant: only the non-2xx status is caught as a fetch failure
HttpErrors_StatusOnly == {"HTTPStatusError"}

\* the httpx exceptions that are httpx.HTTPError
HttpErrors == {"HTTPStatusError", "ConnectTimeout", "ReadTimeout"}
\* self.client.models.generate_content: a response with text, a response whose
\* text is None, or an exception: an error of the service (APIError) or a
\* failure of the HTTP transport under the client (httpx.ReadTimeout)
GenerationErrors == {"APIError", "ReadTimeout"}
GenerationOutcomes ==
    {[kind |-> "text", text |-> t] : t \in ResponseTexts}
        \cup {[kind |-> "no_text"]}
        \cup {[kind |-> "raises", error |-> e] : e \in GenerationErrors}
\* open(file_path, 'w'), and f.write with the close that follows it: done, or
\* the exception raised
PersistOutcomes == {"ok", "OSError"}

\* ---- the summary file
\* The content of a file is a sequence of characters.  The characters of a
\* piece of text:
PieceChars(piece) ==
    CASE piece = "<div>" -> <<"<", "d", "i", "v", ">">>
      [] piece = "</div>" -> <<"<", "/", "d", "i", "v", ">">>
      [] piece = "<p>" -> <<"<", "p", ">">>
      [] piece = "</p>" -> <<"<", "/", "p", ">">>
      [] piece = "<div class=\"paper-summary\">" ->
            <<"<", "d", "i", "v", " ", "c", "l", "a", "s", "s", "=", "\"",
              "p", "a", "p", "e", "r", "-", "s", "u", "m", "m", "a", "r", "y",
              "\"", ">">>
      [] piece = "\"summary\"" ->
            <<"\"", "s", "u", "m", "m", "a", "r", "y", "\"">>
      [] piece = "\"<p>s</p>\"" ->
            <<"\"", "<", "p", ">", "s", "<", "/", "p", ">", "\"">>
      [] OTHER -> <<piece>>
RECURSIVE Characters(_)
Characters(text) ==
    IF text = <<>> THEN <<>>
    ELSE PieceChars(Head(text)) \o Characters(Tail(text))

\* open(file_path, 'w'): the file exists and is empty
OpenedForWriting(dir, name) ==
    [n \in DOMAIN dir \cup {name} |-> IF n = name THEN <<>> ELSE dir[n]]
\* f.write(html_content) and the close: the characters go into the file from
\* its start, over what the file holds by then; what lies beyond them stays
WrittenFromStart(dir, name, chars) ==
    [n \in DOMAIN dir |->
        IF n = name
        THEN chars \o SubSeq(dir[n], Len(chars) + 1, Len(dir[n]))
        ELSE dir[n]]
\* what a write that fails may have put into the file by then: the first k
\* characters of the text, for any k
PartlyWritten(dir, name, chars) ==
    {WrittenFromStart(dir, name, SubSeq(chars, 1, k)) : k \in 0..Len(chars)}

Queued == [step |-> "queued"]

\* ---- _summarize_single_paper: the value each exit gives
\* time.time() - start_time at the exit after the fetch, after the
\* generation and after the write: 0.004 s, 2.675 s and 3.125 s.  A
\* processing_time is held as its number of milliseconds ms and stands for
\* the float FloatLit(ms, 1000).
Elapsed == [fetch |-> 4, generate |-> 2675, persist |-> 3125]
\* round(result.processing_time, 2) of each of them, in hundredths, computed
\* once
rounded_processing_time ==
    [ms \in {Elapsed.fetch, Elapsed.generate, Elapsed.persist} |->
        FloatRound(FloatLit(ms, 1000), 100)]

\* an exception that leaves _summarize_single_paper
Raises(e) == [kind |-> "raise", error |-> e]

\* except httpx.HTTPError as e.  The handler reads paper.url (lines 157, 159):
\* for a paper without url that raises AttributeError out of the call.
OnHttpError(paper, e, elapsed) ==
    IF "url" \notin DOMAIN paper THEN Raises("AttributeError")
    ELSE [kind |-> "result",
          paper_url |-> paper.url,
          title |-> Get(paper, "title", <<"U", "n", "k", "n", "o", "w", "n">>),
          html_summary |-> <<>>,
          status |-> "fetch_error",
          processing_time |-> elapsed,
          error |-> <<"HTTP error: ", e>>]

\* a variant of the generic handler that reports every failure as a fetch
\* failure
OnException_AsFetchError(paper, e, elapsed) ==
    IF "url" \notin DOMAIN paper THEN Raises("AttributeError")
    ELSE [kind |-> "result",
          paper_url |-> paper.url,
          title |-> Get(paper, "title", <<"U", "n", "k", "n", "o", "w", "n">>),
          html_summary |-> <<>>,
          status |-> "fetch_error",
          processing_time |-> elapsed,
          error |-> <<"HTTP error: ", e>>]

\* except Exception as e.  The handler reads paper.url (lines 167, 169): for a
\* paper without url that raises AttributeError out of the call.
OnException(paper, e, elapsed) ==
    IF "url" \notin DOMAIN paper THEN Raises("AttributeError")
    ELSE [kind |-> "result",
          paper_url |-> paper.url,
          title |-> Get(paper, "title", <<"U", "n", "k", "n", "o", "w", "n">>),
          html_summary |-> <<>>,
          status |-> "error",
          processing_time |-> elapsed,
          error |-> <<"Processing error: ", e>>]

\* an exception of the try block reaches the first handler that takes it
OnRaised(paper, e, elapsed) ==
    IF e \in HttpErrors THEN OnHttpError(paper, e, elapsed)
    ELSE OnException(paper, e, elapsed)

\* return SummaryResult(..., status="success", ...)
OnSuccess(paper, validation_result, elapsed) ==
    [kind |-> "result",
     paper_url |-> paper.url,
     title |-> Get(paper, "title", <<"U", "n", "k", "n", "o", "w", "n">>),
     html_summary |-> validation_result.html_summary,
     status |-> "success",
     processing_time |-> elapsed,
     metadata |-> validation_result.metadata]

\* paper_title = getattr(paper, 'title', 'Unknown_Title')
PaperTitle(paper) ==
    Get(paper, "title",
        <<"U", "n", "k", "n", "o", "w", "n", "_", "T", "i", "t", "l", "e">>)

\* ---- summarize_papers
\* if parallel and len(papers) > 1
UsesPool == parallel /\ Len(papers) > 1

Running == {i \in 1..Len(workers) :
               workers[i].step \in {"fetch", "generate", "persist", "write", "saved"}}
AllDone == \A i \in 1..Len(workers) : workers[i].step = "done"

\* a variant that takes the values in the order the workers completed
CollectResults_AsCompleted(outs, order) ==
    [k \in 1..Len(order) |-> outs[order[k]]]

\* results = [future.result() for future in futures]
CollectResults(outs, order) == outs

\* if "success" in result.status (of the statuses a SummaryResult carries,
\* only "success" contains that text)
CountsAsSuccess(status) == status = "success"

\* the reporting record of one result.  processing_time is
\* round(result.processing_time, 2), held as a number of hundredths of a
\* second; "error" and "metadata" are copied when they are truthy (not None,
\* not empty).
SummaryDict(r) ==
    LET base == [paper_url |-> r.paper_url,
                 title |-> r.title,
                 html_summary |-> r.html_summary,
                 status |-> r.status,
                 processing_time |->
                     IF r.processing_time \in DOMAIN rounded_processing_time
                     THEN rounded_processing_time[r.processing_time]
                     ELSE FloatRound(FloatLit(r.processing_time, 1000), 100),
                 language |-> language,
                 audience_level |-> level]
        keys == DOMAIN base
                  \cup (IF Get(r, "error", <<>>) # <<>> THEN {"error"} ELSE {})
                  \cup (IF DOMAIN Get(r, "metadata", <<>>) # {}
                        THEN {"metadata"} ELSE {})
    IN [k \in keys |-> IF k \in DOMAIN base THEN base[k] ELSE r[k]]

RECURSIVE CountSuccess(_)
CountSuccess(rs) ==
    IF rs = <<>> THEN 0
    ELSE (IF CountsAsSuccess(Head(rs).status) THEN 1 ELSE 0) + CountSuccess(Tail(rs))

\* return summary_dicts
ReturnValue(dicts, count) == [kind |-> "list", value |-> dicts]

SumInit ==
    /\ spc = "start"
    /\ \E pool \in PaperPool : \E n \in 0..Min(MaxPapers, Len(pool)) :
          papers = SubSeq(pool, 1, n)
    /\ parallel \in BOOLEAN
    /\ max_workers \in 1..DefaultMaxWorkers
    /\ workers = <<>>
    /\ outcomes = <<>>
    /\ finished = <<>>
    /\ files = <<>>
    /\ results = <<>>
    /\ summary_dicts = <<>>
    /\ success_count = 0
    /\ returned = NoResult

\* the summarizer is not called in the search specification
SumIdle ==
    /\ spc = "idle"
    /\ papers = <<>>
    /\ parallel = FALSE
    /\ max_workers = DefaultMaxWorkers
    /\ workers = <<>>
    /\ outcomes = <<>>
    /\ finished = <<>>
    /\ files = <<>>
    /\ results = <<>>
    /\ summary_dicts = <<>>
    /\ success_count = 0
    /\ returned = NoResult

\* search_papers is not called in the summarizer specification
SearchIdle ==
    /\ pc = "idle"
    /\ max_results = 0
    /\ final_papers = <<>>
    /\ seen_urls = {}
    /\ exhausted_cycles = InitialCycles
    /\ url_list = {}
    /\ requests = 0
    /\ response = NoResponse
    /\ validated_papers = <<>>
    /\ paper_index = 0
    /\ only_fresh = TRUE
    /\ result = NoResult

\* summarize_papers starts: submit every paper to the pool, or enter the loop
Dispatch ==
    /\ spc = "start"
    /\ spc' = IF UsesPool THEN "parallel" ELSE "sequential"
    /\ workers' = [i \in 1..Len(papers) |-> Queued]
    /\ outcomes' = [i \in 1..Len(papers) |-> NoResult]
    /\ UNCHANGED <<papers, parallel, max_workers, finished, files, results,
                   summary_dicts, success_count, returned>>
    /\ UNCHANGED <<searchVars, canonVars, scoreVars>>

\* variant: the pool starts a queued paper whatever number is running
WorkerStart_Unbounded(i) ==
    /\ workers[i].step = "queued"
    /\ \A j \in 1..(i - 1) : workers[j].step # "queued"
    /\ \/ spc = "parallel"
       \/ spc = "sequential" /\ Len(results) = i - 1
    /\ workers' = [workers EXCEPT ![i] = [step |-> "fetch"]]
    /\ UNCHANGED <<spc, papers, parallel, max_workers, outcomes, finished, files,
                   results, summary_dicts, success_count, returned>>
    /\ UNCHANGED <<searchVars, canonVars, scoreVars>>

\* a call of _summarize_single_paper begins: a free pool thread takes the next
\* queued paper, or the sequential loop reaches the paper
WorkerStart(i) ==
    /\ workers[i].step = "queued"
    /\ \A j \in 1..(i - 1) : workers[j].step # "queued"
    /\ \/ spc = "parallel" /\ Cardinality(Running) < max_workers
       \/ spc = "sequential" /\ Len(results) = i - 1
    /\ workers' = [workers EXCEPT ![i] = [step |-> "fetch"]]
    /\ UNCHANGED <<spc, papers, parallel, max_workers, outcomes, finished, files,
                   results, summary_dicts, success_count, returned>>
    /\ UNCHANGED <<searchVars, canonVars, scoreVars>>

\* a call of _summarize_single_paper ends with value r
Finish(i, w, r) ==
    /\ workers' = [workers EXCEPT ![i] = w]
    /\ outcomes' = [outcomes EXCEPT ![i] = r]
    /\ finished' = Append(finished, i)
    /\ IF spc = "sequential"
       THEN IF r.kind = "result"
            THEN results' = Append(results, r) /\ spc' = spc
            ELSE results' = results /\ spc' = "raised"
       ELSE UNCHANGED <<results, spc>>

\* the fetch of the document
Fetch(i) ==
    /\ workers[i].step = "fetch"
    /\ \E f \in FetchOutcomesOf(papers[i]) :
        IF f = "ok"
        THEN /\ workers' = [workers EXCEPT ![i] = [step |-> "generate", fetch |-> f]]
             /\ UNCHANGED <<outcomes, finished, results, spc>>
        ELSE Finish(i, [step |-> "done", fetch |-> f],
                    OnRaised(papers[i], f, Elapsed.fetch))
    /\ UNCHANGED <<papers, parallel, max_workers, files, summary_dicts,
                   success_count, returned>>
    /\ UNCHANGED <<searchVars, canonVars, scoreVars>>

\* variant: the response text is written to the summary file before it is
\* looked at, so a response without text leaves an empty file
Generate_SaveFirst(i) ==
    /\ workers[i].step = "generate"
    /\ \E g \in GenerationOutcomes :
        IF g.kind = "text"
        THEN /\ workers' = [workers EXCEPT ![i] =
                    [step |-> "persist", fetch |-> "ok", generation |-> g,
                     validation |-> validate_html_response(g.text)]]
             /\ UNCHANGED <<outcomes, finished, results, spc, files>>
        ELSE /\ files' = [n \in DOMAIN files \cup
                              {generate_output_filename(PaperTitle(papers[i]),
                                                        language, level)} |->
                            IF n \in DOMAIN files THEN files[n] ELSE <<>>]
             /\ Finish(i, [step |-> "done", fetch |-> "ok", generation |-> g],
                       OnRaised(papers[i],
                                IF g.kind = "raises" THEN g.error
                                ELSE "AttributeError", Elapsed.generate))
    /\ UNCHANGED <<papers, parallel, max_workers, summary_dicts,
                   success_count, returned>>
    /\ UNCHANGED <<searchVars, canonVars, scoreVars>>

\* the generation call and the validation of its response; a response whose
\* text is None fails at text.strip() with AttributeError
Generate(i) ==
    /\ workers[i].step = "generate"
    /\ \E g \in GenerationOutcomes :
        IF g.kind = "text"
        THEN /\ workers' = [workers EXCEPT ![i] =
                    [step |-> "persist", fetch |-> "ok", generation |-> g,
                     validation |-> validate_html_response(g.text)]]
             /\ UNCHANGED <<outcomes, finished, results, spc>>
        ELSE Finish(i, [step |-> "done", fetch |-> "ok", generation |-> g],
                    OnRaised(papers[i],
                             IF g.kind = "raises" THEN g.error
                             ELSE "AttributeError", Elapsed.generate))
    /\ UNCHANGED <<papers, parallel, max_workers, files, summary_dicts,
                   success_count, returned>>
    /\ UNCHANGED <<searchVars, canonVars, scoreVars>>

\* _save_html_summary, line 67: the file is opened for writing, which creates
\* or empties it; an open that fails is caught and the path returned is ""
OpenSummaryFile(i) ==
    /\ workers[i].step = "persist"
    /\ \E p \in PersistOutcomes :
        LET name == generate_output_filename(PaperTitle(papers[i]), language, level)
        IN IF p = "ok"
           THEN /\ files' = OpenedForWriting(files, name)
                /\ workers' = [workers EXCEPT ![i].step = "write"]
           ELSE /\ files' = files
                /\ workers' = [workers EXCEPT ![i] =
                       [step |-> "saved", fetch |-> "ok",
                        generation |-> workers[i].generation,
                        validation |-> workers[i].validation,
                        persist |-> p, opened |-> FALSE]]
    /\ UNCHANGED <<spc, papers, parallel, max_workers, outcomes, finished,
                   results, summary_dicts, success_count, returned>>
    /\ UNCHANGED <<searchVars, canonVars, scoreVars>>

\* _save_html_summary, line 68 and the end of the with block: the text is
\* written and the file closed; a failure is caught, and by then any part of
\* the text from its start may be in the file
WriteSummaryFile(i) ==
    /\ workers[i].step = "write"
    /\ \E p \in PersistOutcomes :
        LET name == generate_output_filename(PaperTitle(papers[i]), language, level)
            chars == Characters(workers[i].validation.html_summary)
        IN /\ IF p = "ok"
              THEN files' = WrittenFromStart(files, name, chars)
              ELSE files' \in PartlyWritten(files, name, chars)
           /\ workers' = [workers EXCEPT ![i] =
                  [step |-> "saved", fetch |-> "ok",
                   generation |-> workers[i].generation,
                   validation |-> workers[i].validation,
                   persist |-> p, opened |-> TRUE]]
    /\ UNCHANGED <<spc, papers, parallel, max_workers, outcomes, finished,
                   results, summary_dicts, success_count, returned>>
    /\ UNCHANGED <<searchVars, canonVars, scoreVars>>

\* variant: a failed save turns the worker's result into an error
ReturnSuccess_FailureIsError(i) ==
    /\ workers[i].step = "saved"
    /\ Finish(i, [step |-> "done", fetch |-> "ok",
                  generation |-> workers[i].generation,
                  persist |-> workers[i].persist, opened |-> workers[i].opened],
              IF workers[i].persist = "ok"
              THEN OnSuccess(papers[i], workers[i].validation, Elapsed.persist)
              ELSE OnException(papers[i], workers[i].persist, Elapsed.persist))
    /\ UNCHANGED <<papers, parallel, max_workers, files, summary_dicts,
                   success_count, returned>>
    /\ UNCHANGED <<searchVars, canonVars, scoreVars>>

\* _save_html_summary has returned: the success result is built and returned
\* (lines 147-154)
ReturnSuccess(i) ==
    /\ workers[i].step = "saved"
    /\ Finish(i, [step |-> "done", fetch |-> "ok",
                  generation |-> workers[i].generation,
                  persist |-> workers[i].persist, opened |-> workers[i].opened],
              OnSuccess(papers[i], workers[i].validation, Elapsed.persist))
    /\ UNCHANGED <<papers, parallel, max_workers, files, summary_dicts,
                   success_count, returned>>
    /\ UNCHANGED <<searchVars, canonVars, scoreVars>>

\* variant: the pool is left as soon as one future is done, with the values
\* of the futures that are done by then
JoinFutures_FirstCompleted ==
    /\ spc = "parallel"
    /\ \E i \in 1..Len(workers) : workers[i].step = "done"
    /\ results' = SelectSeq(outcomes, LAMBDA r : r.kind = "result")
    /\ spc' = "joined"
    /\ UNCHANGED <<papers, parallel, max_workers, workers, outcomes, finished,
                   files, summary_dicts, success_count, returned>>
    /\ UNCHANGED <<searchVars, canonVars, scoreVars>>

\* the pool is left: every future is done and results holds their values
JoinFutures ==
    /\ spc = "parallel"
    /\ AllDone
    /\ IF \A i \in 1..Len(outcomes) : outcomes[i].kind = "result"
       THEN /\ results' = CollectResults(outcomes, finished)
            /\ spc' = "joined"
       ELSE /\ results' = results
            /\ spc' = "raised"
    /\ UNCHANGED <<papers, parallel, max_workers, workers, outcomes, finished,
                   files, summary_dicts, success_count, returned>>
    /\ UNCHANGED <<searchVars, canonVars, scoreVars>>

\* the conversion loop and the return
ConvertAndReturn ==
    /\ \/ spc = "joined"
       \/ spc = "sequential" /\ Len(results) = Len(papers)
    /\ summary_dicts' = [i \in 1..Len(results) |-> SummaryDict(results[i])]
    /\ success_count' = CountSuccess(results)
    /\ returned' = ReturnValue(summary_dicts', success_count')
    /\ spc' = "returned"
    /\ UNCHANGED <<papers, parallel, max_workers, workers, outcomes, finished,
                   files, results>>
    /\ UNCHANGED <<searchVars, canonVars, scoreVars>>

\* ---- one call of _validate_and_convert_arxiv_url on its own
\* the URLs tried: a scheme, a host and a path
CanonHosts == {"arxiv.org", "export.arxiv.org", "arxiv.org.example.com",
               "example.com"}
CanonIds == {<<i>> \o v \o e : i \in {"2401.12345", "2507.13334"},
                              v \in {<<>>, <<"v2">>},
                              e \in {<<>>, <<".pdf">>}}
CanonPaths ==
    {<<"/", w, "/">> \o i : w \in {"abs", "pdf"}, i \in CanonIds}
    \cup {<<"/", "abs", "/", "cs", "/">> \o i : i \in CanonIds}
    \cup {<<"/">> \o i : i \in CanonIds}
    \cup {<<"/", "cs", "/">> \o i : i \in CanonIds}
    \cup {<<>>,
          <<"/", "list", "/", "cs">>,
          <<"/", "arxiv.org", "/", "abs", "/", "2401.12345", "v2", "/", "list">>,
          <<"/", "abs", "/", "2401.12345", "/", "cs", "/", "2507.13334">>,
          <<"/", "list", "/", "2401.12345", "v1", "/", "cs", "/", "2507.13334",
            ".pdf">>}
CanonInputs == {<<>>} \cup {<<"https://", h>> \o p : h \in CanonHosts, p \in CanonPaths}

CanonInit ==
    /\ canon_pc = "call"
    /\ canon_url \in CanonInputs
    /\ canon_result = NoResult

\* the canonicalizer is not called on its own in the other specifications
CanonIdle ==
    /\ canon_pc = "idle"
    /\ canon_url = <<>>
    /\ canon_result = NoResult

\* the call returns the canonical URL or raises ValueError
Canonicalize ==
    /\ canon_pc = "call"
    /\ canon_result' = validate_and_convert_arxiv_url(canon_url)
    /\ canon_pc' = IF canon_result'.ok THEN "returned" ELSE "raised"
    /\ UNCHANGED canon_url
    /\ UNCHANGED <<searchVars, sumVars, scoreVars>>

\* ---- one call of _calculate_composite_score on its own
\* "2030-01-15", a date in a future year
D2030 == <<"2", "0", "3", "0", "-", "0", "1", "-", "1", "5">>
\* "20-05-2025", day first: int("20-0") raises
DDayFirst == <<"2", "0", "-", "0", "5", "-", "2", "0", "2", "5">>
\* " 2025-01-01" and "2_025-01-01": int(" 202") and int("2_02") are both 202
DPadded == <<" ", "2", "0", "2", "5", "-", "0", "1", "-", "0", "1">>
DUnderscore == <<"2", "_", "0", "2", "5", "-", "0", "1", "-", "0", "1">>
\* the dicts tried: every signal absent or drawn from a few values
NoKeys == [k \in {} |-> 0]
SignalParts(key, values) == {NoKeys} \cup {(key :> v) : v \in values}
ScorePapers ==
    {c @@ m @@ g @@ h @@ d :
        c \in SignalParts("citations", {0, 3, 50, 100, 250}),
        m \in SignalParts("social_mentions", {10, 60}),
        g \in SignalParts("github_stars", {75, 125, 2500}),
        h \in SignalParts("author_hindex", {25, 80}),
        d \in SignalParts("publication_date",
                          {D2020, D2025, D2030, DNone, DDayFirst, DPadded,
                           DUnderscore})}

ScoreInit ==
    /\ score_pc = "call"
    /\ score_paper \in ScorePapers
    /\ score_result = 0

\* the scorer is not called on its own in the other specifications
ScoreIdle ==
    /\ score_pc = "idle"
    /\ score_paper = NoKeys
    /\ score_result = 0

\* the call returns the rounded score
Score ==
    /\ score_pc = "call"
    /\ score_result' = calculate_composite_score(score_paper)
    /\ score_pc' = "returned"
    /\ UNCHANGED score_paper
    /\ UNCHANGED <<searchVars, sumVars, canonVars>>

\* ========================================================== specifications
\* one call of search_papers
Init == SearchInit /\ SumIdle /\ CanonIdle /\ ScoreIdle
Next ==
    \/ SearchRequest
    \/ ResponseFails
    \/ ResponsePapers
    \/ ValidateCandidate
    \/ MergeBatch
    \/ Return
Spec == Init /\ [][Next]_vars

\* one call of summarize_papers
SummarizeInit == SumInit /\ SearchIdle /\ CanonIdle /\ ScoreIdle
SummarizeNext ==
    \/ Dispatch
    \/ \E i \in 1..Len(workers) : WorkerStart(i)
    \/ \E i \in 1..Len(workers) : Fetch(i)
    \/ \E i \in 1..Len(workers) : Generate(i)
    \/ \E i \in 1..Len(workers) : OpenSummaryFile(i)
    \/ \E i \in 1..Len(workers) : WriteSummaryFile(i)
    \/ \E i \in 1..Len(workers) : ReturnSuccess(i)
    \/ JoinFutures
    \/ ConvertAndReturn
SummarizeSpec == SummarizeInit /\ [][SummarizeNext]_vars

\* one call of _validate_and_convert_arxiv_url
CanonicalizeInit == CanonInit /\ SearchIdle /\ SumIdle /\ ScoreIdle
CanonicalizeNext == Canonicalize
CanonicalizeSpec == CanonicalizeInit /\ [][CanonicalizeNext]_vars

\* one call of _calculate_composite_score
ScoreCallInit == ScoreInit /\ SearchIdle /\ SumIdle /\ CanonIdle
ScoreCallNext == Score
ScoreSpec == ScoreCallInit /\ [][ScoreCallNext]_vars

\* ================================================================ claims
Urls(list) == {list[i].url : i \in 1..Len(list)}
Terminated == pc \in {"returned", "raised"}
\* the candidates of the latest response that pass validation, in backend order
ValidOf(candidates) ==
    LET passing == SelectSeq(candidates, LAMBDA c : ValidateOne(c).ok)
    IN [i \in 1..Len(passing) |-> ValidateOne(passing[i]).paper]
ValidOfResponse == ValidOf(response.papers)
\* the candidate is an object whose url is a text
HasTextUrl(c) ==
    c.t = "dict" /\ "url" \in DOMAIN c.dict /\ c.dict.url.t = "str"
\* the papers the latest iteration appended to final_papers
MergedNow == SelectSeq(final_papers, LAMBDA p : p.url \notin url_list)

\* C1: if every backend response holds only valid candidates whose canonical
\* URLs are new to the call, search_papers with max_results = N >= 1 returns
\* exactly N papers, never more, whatever the size of each response batch.
C1_ExactlyMaxResults ==
    (pc = "returned" /\ only_fresh /\ max_results >= 1)
        => Len(result.papers) = max_results

\* C2: one call terminates and issues at most 5 backend requests; every
\* iteration that completes consumes exactly one attempt, also when it
\* accepted no new paper.  Termination: every step of the call lowers Rank,
\* which is never negative.
Rank ==
    IF Terminated THEN 0
    ELSE (MaxBatch + 3) * exhausted_cycles
         + (CASE pc = "loop" -> MaxBatch + 3
              [] pc = "awaiting" -> MaxBatch + 2
              [] pc = "validating" -> Len(response.papers) - paper_index + 1)
C2_BoundedAttempts ==
    /\ [](requests <= InitialCycles /\ Rank >= 0)
    /\ [](pc = "loop" => requests + exhausted_cycles = InitialCycles)
    /\ [][Rank' < Rank]_vars
    /\ [][(pc = "validating" /\ pc' = "loop")
             => exhausted_cycles' = exhausted_cycles - 1]_vars
C2_Witness ==
    /\ pc = "returned"
    /\ max_results >= 1
    /\ result.papers = <<>>
    /\ requests = InitialCycles
    /\ exhausted_cycles = 0

\* C3: no canonical URL (and no arXiv identifier) appears twice in the list
\* search_papers accumulates and returns, also when the repeat arrives in
\* another recognized URL shape of the same identifier.
C3_NoDuplicateUrls ==
    /\ \A i, j \in 1..Len(final_papers) :
          i # j => /\ final_papers[i].url # final_papers[j].url
                   /\ ExtractArxivId(final_papers[i].url)
                        # ExtractArxivId(final_papers[j].url)
    /\ pc = "returned" => result.papers = final_papers
C3_Witness ==
    /\ pc = "loop"
    /\ response = [kind |-> "papers", papers |-> <<CandA_abs, CandA_pdf>>]
    /\ validate_and_convert_arxiv_url(U_pdf1).url \in url_list
    /\ Len(final_papers) = 1

\* C4: the candidates of one iteration are merged into the final list in
\* descending order of their composite score, candidates with equal scores in
\* the order the backend returned them.
FirstIndex(list, url) == CHOOSE i \in 1..Len(list) :
    list[i].url = url /\ \A j \in 1..(i - 1) : list[j].url # url
C4_MergedByScore ==
    (pc = "loop" /\ response.kind = "papers") =>
        \A i, j \in 1..Len(MergedNow) :
            i < j =>
               LET si == calculate_composite_score(MergedNow[i])
                   sj == calculate_composite_score(MergedNow[j])
               IN /\ si >= sj
                  /\ si = sj => FirstIndex(ValidOfResponse, MergedNow[i].url)
                                  < FirstIndex(ValidOfResponse, MergedNow[j].url)

\* C5: when the backend call raises, or its response is unparseable or lacks
\* the papers key, search_papers raises at once: no further request is issued
\* and the papers accumulated so far are not returned.
C5_FailFast ==
    /\ [][(pc = "awaiting" /\ response'.kind \in FailureKinds)
             => /\ pc' = "raised"
                /\ result'.kind = "raise"
                /\ requests' = requests]_vars
    /\ [][pc # "raised"]_vars
    /\ [](response.kind \in FailureKinds => pc = "raised" /\ result.kind = "raise")
C5_Witness ==
    /\ pc = "raised"
    /\ response.kind = "missing_papers"
    /\ Len(final_papers) = 1
    /\ requests = 2
    /\ result.kind = "raise"

\* the URL of candidate c fails canonicalization: it is missing or empty,
\* outside arxiv.org, or without an identifier
UrlFailsCanonicalization(c) ==
    /\ c.t = "dict"
    /\ \/ "url" \notin DOMAIN c.dict
       \/ /\ HasTextUrl(c)
          /\ ~validate_and_convert_arxiv_url(c.dict.url.str).ok

\* C6: a candidate whose URL fails canonicalization is dropped, every other
\* valid candidate of the same response is still accepted, and the drop never
\* makes search_papers raise.
C6_BadCandidateIsolated ==
    /\ [][(/\ pc = "validating"
           /\ paper_index < Len(response.papers)
           /\ UrlFailsCanonicalization(response.papers[paper_index + 1]))
             => /\ pc' = "validating"
                /\ paper_index' = paper_index + 1
                /\ validated_papers' = validated_papers
                /\ result' = result]_vars
    /\ [](response.kind = "papers" =>
            /\ pc # "raised"
            /\ pc = "validating" =>
                  validated_papers =
                      ValidOf(SubSeq(response.papers, 1, paper_index))
            /\ pc # "validating" =>
                  /\ validated_papers = ValidOfResponse
                  /\ seen_urls = url_list \cup Urls(ValidOfResponse)
            /\ Urls(final_papers) = seen_urls
            /\ Len(final_papers) = Cardinality(seen_urls))
C6_Witness ==
    /\ response.kind = "papers"
    /\ Len(response.papers) = 2
    /\ HasTextUrl(response.papers[1])
    /\ ~validate_and_convert_arxiv_url(response.papers[1].dict.url.str).ok
    /\ ValidateOne(response.papers[2]).ok
    /\ ValidateOne(response.papers[2]).paper.url \notin url_list
    /\ ValidateOne(response.papers[2]).paper \in Range(final_papers)
    /\ pc = "returned"

\* C7: when no backend call fails, search_papers ends Satisfied (quota
\* reached) or Exhausted (attempts used up) and returns the list accumulated
\* so far without raising, also when it is shorter than max_results or empty.
\* (A response that parsed and holds "papers" with a candidate whose url is the
\* number 5 makes search_papers raise TypeError.)
C7_ReturnsAccumulated ==
    /\ pc = "raised" => response.kind \in ResponseFailureKinds
    /\ pc = "returned" =>
            /\ result = [kind |-> "list", papers |-> final_papers]
            /\ (Len(final_papers) >= max_results \/ exhausted_cycles = 0)
    /\ (pc = "loop" /\ ~LoopCondition) => ENABLED Return
    /\ (pc = "loop" /\ LoopCondition) => ENABLED SearchRequest
    /\ pc = "awaiting" => ENABLED ResponsePapers
    /\ pc = "validating" =>
            (paper_index < Len(response.papers) \/ ENABLED MergeBatch)

\* ---------------------------------------------------------- summarization
Statuses == {"success", "fetch_error", "error"}
DoneWorkers == {i \in 1..Len(workers) : workers[i].step = "done"}
\* the call for paper i met a failure of the fetch, the generation call or
\* the validation of the response
Failed(i) ==
    \/ workers[i].fetch # "ok"
    \/ workers[i].generation.kind # "text"

\* C8: _summarize_single_paper never raises: whatever paper it is given and
\* whatever fails, it returns a SummaryResult, and a caught failure of fetch,
\* generation or validation gives a status other than success.
\* (For a paper object without url, paper.url raises AttributeError in the try
\* block and again in the handler, and the call raises.)
C8_WorkerNeverRaises ==
    /\ spc # "raised"
    /\ \A i \in DoneWorkers :
          /\ outcomes[i].kind = "result"
          /\ outcomes[i].status \in Statuses
          /\ outcomes[i].paper_url = papers[i].url
          /\ Failed(i) => outcomes[i].status # "success"

\* C9: in both modes summarize_papers returns one record per input paper, the
\* record at position i being the outcome of the paper at position i,
\* whatever order the workers finish in.
C9_ResultsInInputOrder ==
    spc = "returned" =>
        /\ Len(returned.value) = Len(papers)
        /\ \A i \in 1..Len(papers) :
              /\ returned.value[i].paper_url = papers[i].url
              /\ returned.value[i].status = outcomes[i].status
              /\ returned.value[i].html_summary = outcomes[i].html_summary
              /\ returned.value[i].processing_time
                    = rounded_processing_time[outcomes[i].processing_time]
C9_Witness ==
    /\ spc = "returned"
    /\ parallel
    /\ finished = <<2, 1>>
    /\ returned.value[1].processing_time = 312
    /\ returned.value[2].processing_time = 0
    /\ returned.value[1].status = "success"
    /\ returned.value[2].status = "fetch_error"

\* C10: summarize_papers returns, together with the per-paper results, a
\* success count equal to the number of results whose status is exactly
\* success.
\* (The value returned is the list of records alone; the count is logged.)
SuccessIndices(list) == {i \in 1..Len(list) : list[i].status = "success"}
C10_ReturnsSuccessCount ==
    spc = "returned" =>
        /\ "success_count" \in DOMAIN returned
        /\ returned.success_count = Cardinality(SuccessIndices(results))

\* the status the call for one paper has when it is processed alone, from what
\* its own fetch and its own generation call met
IsolatedStatus(w) ==
    IF w.fetch \in HttpErrors THEN "fetch_error"
    ELSE IF w.fetch # "ok" THEN "error"
    ELSE IF w.generation.kind = "raises" /\ w.generation.error \in HttpErrors
         THEN "fetch_error"
    ELSE IF w.generation.kind # "text" THEN "error"
    ELSE "success"

\* C11: in both modes a failure while one paper is processed is confined to
\* that paper's record: the call does not raise, every paper is processed,
\* and each paper is reported with the status it would have had alone.
\* (The AttributeError of a paper without url leaves the worker: the
\* sequential loop stops at that paper, future.result() raises it again after
\* the pool has finished, and summarize_papers returns no list.)
C11_FailureConfined ==
    /\ spc # "raised"
    /\ \A i \in DoneWorkers :
          /\ outcomes[i].kind = "result"
          /\ outcomes[i].status = IsolatedStatus(workers[i])
    /\ spc = "returned" =>
          /\ DoneWorkers = 1..Len(papers)
          /\ Len(returned.value) = Len(papers)
          /\ \A i \in 1..Len(papers) :
                returned.value[i].status = IsolatedStatus(workers[i])

\* C12: when the fetch of a paper's document fails at the transport level or
\* with a non-2xx status, the worker's result has status fetch_error, an empty
\* html_summary, the error text and the elapsed time.
C12_FetchError ==
    \A i \in DoneWorkers :
        workers[i].fetch \in {"HTTPStatusError", "ConnectTimeout"} =>
            /\ outcomes[i].kind = "result"
            /\ outcomes[i].status = "fetch_error"
            /\ outcomes[i].html_summary = <<>>
            /\ outcomes[i].error = <<"HTTP error: ", workers[i].fetch>>
            /\ outcomes[i].processing_time = Elapsed.fetch
            /\ outcomes[i].paper_url = papers[i].url
C12_Witness ==
    /\ Len(papers) = 2
    /\ DoneWorkers = {1, 2}
    /\ workers[1].fetch = "ConnectTimeout"
    /\ workers[2].fetch = "HTTPStatusError"
    /\ outcomes[1].status = "fetch_error"
    /\ outcomes[2].status = "fetch_error"
    /\ spc = "returned"

\* the workers whose fetch succeeded and whose generation call gave a text
Generated == {i \in DoneWorkers :
                 workers[i].fetch = "ok" /\ workers[i].generation.kind = "text"}
Wrapped(text) == <<"<div class=\"paper-summary\">">> \o text \o <<"</div>">>

\* the workers whose save went through, and those that opened their file
Written == {i \in DoneWorkers :
               "persist" \in DOMAIN workers[i] /\ workers[i].persist = "ok"}
Opened == {i \in 1..Len(workers) :
              \/ workers[i].step = "write"
              \/ "opened" \in DOMAIN workers[i] /\ workers[i].opened}
PathOf(i) == generate_output_filename(PaperTitle(papers[i]), language, level)
\* the html_summary worker i has validated
SummaryOf(i) ==
    IF workers[i].step = "done" THEN outcomes[i].html_summary
    ELSE workers[i].validation.html_summary

\* C13: when the text of the Generation Service response is a JSON object,
\* the worker's html_summary is the object's summary field and its metadata
\* is the whole parsed object.
C13_StructuredResponse ==
    \A i \in Generated :
        workers[i].generation.text \in JsonTexts =>
            /\ outcomes[i].status = "success"
            /\ outcomes[i].html_summary = <<"<p>", "s", "</p>">>
            /\ outcomes[i].metadata = [summary |-> <<"<p>", "s", "</p>">>]

\* C14 as stated: a response text that is not structured data gives status
\* success and metadata {"format": "html"}; html_summary is the text itself
\* when the text begins with a markup tag, and the text wrapped in a minimal
\* container otherwise.
C14_RawTextAsIs ==
    \A i \in Generated :
        LET text == workers[i].generation.text
        IN text \notin JsonTexts =>
            /\ outcomes[i].status = "success"
            /\ outcomes[i].metadata = [format |-> "html"]
            /\ outcomes[i].html_summary =
                  IF text # <<>> /\ text[1] \in MarkupPieces THEN text
                  ELSE Wrapped(text)

\* text[a..b] is text without its leading and trailing whitespace
IsStripOf(text, a, b) ==
    /\ \A k \in 1..(a - 1) : text[k] \in WhitespaceChars
    /\ \A k \in (b + 1)..Len(text) : text[k] \in WhitespaceChars
    /\ IF a <= b
       THEN text[a] \notin WhitespaceChars /\ text[b] \notin WhitespaceChars
       ELSE a = b + 1

\* C14 amended: a response text that is not structured data gives status
\* success and metadata {"format": "html"}; html_summary is the text without
\* its leading and trailing whitespace when that begins with the character "<"
\* ("<div>hi</div>" stays "<div>hi</div>", "\n<p>s</p> " gives "<p>s</p>", and
\* "<3", which is no markup, stays "<3"), and that stripped text wrapped in a
\* minimal container otherwise, the empty text included.
C14_RawTextStripped ==
    \A i \in Generated :
        LET text == workers[i].generation.text
        IN text \notin JsonTexts =>
            /\ outcomes[i].status = "success"
            /\ outcomes[i].metadata = [format |-> "html"]
            /\ \E a \in 1..(Len(text) + 1) : \E b \in (a - 1)..Len(text) :
                  LET s == SubSeq(text, a, b)
                  IN /\ IsStripOf(text, a, b)
                     /\ outcomes[i].html_summary =
                           IF Characters(s) # <<>> /\ Characters(s)[1] = "<"
                           THEN s
                           ELSE Wrapped(s)
C14_Witness ==
    /\ Len(papers) = 2
    /\ Generated = {1, 2}
    /\ workers[1].generation.text = <<"<", "3">>
    /\ outcomes[1].html_summary = <<"<", "3">>
    /\ workers[2].generation.text = <<"\n", "<p>", "s", "</p>", " ">>
    /\ outcomes[2].html_summary = <<"<p>", "s", "</p>">>
    /\ outcomes[2].metadata = [format |-> "html"]
C14_WitnessWrapped ==
    /\ Len(papers) = 2
    /\ Generated = {1, 2}
    /\ workers[1].generation.text = <<"<div>", "h", "i", "</div>">>
    /\ outcomes[1].html_summary = <<"<div>", "h", "i", "</div>">>
    /\ workers[2].generation.text = <<" ", "h", "i", "\r", "\n">>
    /\ outcomes[2].html_summary = Wrapped(<<"h", "i">>)

\* C15: a failure to write the summary file never changes the worker's
\* result: after a successful fetch and generation the result is success with
\* the html_summary and metadata of the response, whether the write succeeded
\* or failed, and the failure does not leave the worker: no call that
\* reached the save raises, and summarize_papers raises only for a call that
\* did not reach it.
C15_PersistFailureIgnored ==
    /\ spc = "raised" =>
          \E i \in DoneWorkers \ Generated :
              outcomes[i].kind = "raise" /\ "persist" \notin DOMAIN workers[i]
    /\ \A i \in DoneWorkers :
          "persist" \in DOMAIN workers[i] => outcomes[i].kind = "result"
    /\ \A i \in Generated :
          /\ workers[i].persist \in PersistOutcomes
          /\ outcomes[i].kind = "result"
          /\ outcomes[i].status = "success"
          /\ outcomes[i].html_summary
                = validate_html_response(workers[i].generation.text).html_summary
          /\ outcomes[i].metadata
                = validate_html_response(workers[i].generation.text).metadata
    /\ \A i, j \in Generated :
          workers[i].generation = workers[j].generation =>
              /\ outcomes[i].html_summary = outcomes[j].html_summary
              /\ outcomes[i].metadata = outcomes[j].metadata
              /\ outcomes[i].status = outcomes[j].status
C15_Witness ==
    /\ Len(papers) = 2
    /\ Generated = {1, 2}
    /\ workers[1].persist = "ok"
    /\ workers[2].persist = "OSError"
    /\ workers[1].generation = workers[2].generation
    /\ outcomes[2].status = "success"
    /\ workers[2].opened
    /\ PathOf(1) = PathOf(2)
    /\ files[PathOf(1)] = <<>>
    /\ spc = "returned"

\* the steps one call of _summarize_single_paper still has to take
StepsLeft(step) ==
    CASE step = "queued" -> 6
      [] step = "fetch" -> 5
      [] step = "generate" -> 4
      [] step = "persist" -> 3
      [] step = "write" -> 2
      [] step = "saved" -> 1
      [] step = "done" -> 0
WorkersWith(step) == {i \in 1..Len(workers) : workers[i].step = step}
\* the steps summarize_papers still has to take, never negative
WorkRank ==
    CASE spc = "start" -> StepsLeft("queued") * Len(papers) + 3
      [] spc \in {"parallel", "sequential"} ->
            StepsLeft("queued") * Cardinality(WorkersWith("queued"))
              + StepsLeft("fetch") * Cardinality(WorkersWith("fetch"))
              + StepsLeft("generate") * Cardinality(WorkersWith("generate"))
              + StepsLeft("persist") * Cardinality(WorkersWith("persist"))
              + StepsLeft("write") * Cardinality(WorkersWith("write"))
              + StepsLeft("saved") * Cardinality(WorkersWith("saved")) + 2
      [] spc = "joined" -> 1
      [] OTHER -> 0
WorkerStep(i) ==
    \/ WorkerStart(i) \/ Fetch(i) \/ Generate(i)
    \/ OpenSummaryFile(i) \/ WriteSummaryFile(i) \/ ReturnSuccess(i)

\* C16: in parallel mode at most max_workers papers (3 by default) are being
\* processed at any moment and the other submitted papers wait for a free
\* worker; every submitted paper is processed: while a paper is unprocessed
\* some worker can take a step, and every step lowers WorkRank.
C16_BoundedParallelism ==
    /\ [](spc = "parallel" => Cardinality(Running) <= max_workers)
    /\ [][\A i \in 1..Len(workers) :
             (spc = "parallel" /\ workers[i].step = "queued"
                 /\ workers'[i].step # "queued")
                => Cardinality(Running) < max_workers]_vars
    /\ []((spc = "parallel" /\ ~AllDone)
             => ENABLED (\E i \in 1..Len(workers) : WorkerStep(i)))
    /\ []((spc = "parallel" /\ AllDone) => ENABLED JoinFutures)
    /\ [][WorkRank' < WorkRank]_vars
    /\ [](WorkRank >= 0)
C16_Witness ==
    /\ spc = "parallel"
    /\ max_workers = 1
    /\ Len(papers) = 2
    /\ Running = {2}
    /\ workers[1].step = "done"
    /\ finished = <<1>>

\* C17: in parallel mode summarize_papers returns only after every submitted
\* worker has completed: a worker that failed or finished early neither ends
\* the call nor cancels the workers still queued or running.
StepNo(step) == StepsLeft("queued") - StepsLeft(step)
C17_WaitsForAllWorkers ==
    /\ []((UsesPool /\ spc \in {"joined", "returned"})
             => /\ AllDone
                /\ Len(finished) = Len(papers)
                /\ Len(results) = Len(papers))
    /\ [][\A i \in 1..Len(workers) :
             /\ StepNo(workers'[i].step) >= StepNo(workers[i].step)
             /\ workers[i].step = "done" => outcomes'[i] = outcomes[i]]_vars
    /\ [](spc = "parallel" =>
             \A i \in Running :
                ENABLED (\/ Fetch(i) \/ Generate(i) \/ OpenSummaryFile(i)
                         \/ WriteSummaryFile(i) \/ ReturnSuccess(i)))
C17_Witness ==
    /\ spc = "returned"
    /\ parallel
    /\ Len(papers) = 2
    /\ finished = <<2, 1>>
    /\ workers[2].fetch = "ConnectTimeout"
    /\ returned.value[1].status = "success"
    /\ returned.value[2].status = "fetch_error"

\* C18: two workers processing distinct papers never write the same output
\* file path: the file name built for a paper is distinct for distinct papers.
\* (The titles "A B" and "A:  B" both sanitize to A_B, so both workers open and
\* write A_B-en-expert.html.)
C18_DistinctPaths ==
    \A i, j \in Written : i # j => PathOf(i) # PathOf(j)

\* ---------------------------------------------------------- canonicalizer
\* the host of a URL, and the hosts of the arxiv.org domain
HostOf(url) == Tok(url, 2)
ArxivHosts == {"arxiv.org", "export.arxiv.org"}
CanonicalPrefix == <<"https://", "arxiv.org", "/", "pdf", "/">>

\* C19: _validate_and_convert_arxiv_url fails for every URL whose host does
\* not belong to the arxiv.org domain, also when another host merely contains
\* the domain text or the path has the shape of an identifier.
C19_RejectsOtherHosts ==
    (canon_pc \in {"returned", "raised"} /\ HostOf(canon_url) \notin ArxivHosts)
        => (canon_pc = "raised" /\ ~canon_result.ok)

\* the token where the first arxiv.org/abs/<id> or arxiv.org/pdf/<id> of the
\* URL has its identifier, 0 when the URL has none
FirstAbsPdfId(url) ==
    LET at == {k \in 1..Len(url) :
                  /\ Tok(url, k) \in ArxivHosts
                  /\ Tok(url, k + 1) = "/"
                  /\ Tok(url, k + 2) \in {"abs", "pdf"}
                  /\ Tok(url, k + 3) = "/"
                  /\ Tok(url, k + 4) \in IdTokens}
    IN IF at = {} THEN 0 ELSE 4 + CHOOSE k \in at : \A j \in at : k <= j

\* C20: on success the canonicalizer returns "https://arxiv.org/pdf/" followed
\* by the identifier of the first matching pattern in priority order, copied
\* from the URL with its version suffix and without ".pdf";
\* https://arxiv.org/abs/2401.12345 gives https://arxiv.org/pdf/2401.12345.
C20_CanonicalForm ==
    canon_pc = "returned" =>
        LET out == canon_result.url
            id == SubSeq(out, Len(CanonicalPrefix) + 1, Len(out))
            first == FirstAbsPdfId(canon_url)
        IN /\ canon_result.ok
           /\ SubSeq(out, 1, Len(CanonicalPrefix)) = CanonicalPrefix
           /\ id # <<>>
           /\ ".pdf" \notin Range(id)
           /\ \E k \in 1..Len(canon_url) :
                 /\ SubSeq(canon_url, k, k + Len(id) - 1) = id
                 /\ Tok(canon_url, k + Len(id)) \notin VersionTokens
           /\ first # 0 =>
                 id = IF Tok(canon_url, first + 1) \in VersionTokens
                      THEN <<canon_url[first], canon_url[first + 1]>>
                      ELSE <<canon_url[first]>>
           /\ canon_url = <<"https://", "arxiv.org", "/", "abs", "/", "2401.12345">>
                 => out = <<"https://", "arxiv.org", "/", "pdf", "/", "2401.12345">>
           /\ canon_url = <<"https://", "arxiv.org", "/", "pdf", "/", "2401.12345",
                            "v2", ".pdf">>
                 => out = <<"https://", "arxiv.org", "/", "pdf", "/", "2401.12345",
                            "v2">>
C20_Witness ==
    /\ canon_pc = "returned"
    /\ canon_url = <<"https://", "arxiv.org", "/", "abs", "/", "2401.12345">>
    /\ canon_result.url = <<"https://", "arxiv.org", "/", "pdf", "/", "2401.12345">>

\* ------------------------------------------------------- composite scorer
\* C21: for every combination of signal values, dates in a future year
\* included, the composite score lies in [0, 1] (here 0..1000 thousandths).
C21_ScoreInUnitInterval ==
    score_pc = "returned" => (score_result >= 0 /\ score_result <= 1000)

\* the text is an integer literal as int() reads one: whitespace, an
\* optional sign, digits with single underscores between them, whitespace
IsIntLiteral(t) ==
    \E a \in 0..Len(t) : \E b \in a..Len(t) :
        LET first == IF a < b /\ t[a + 1] \in {"+", "-"} THEN a + 2 ELSE a + 1
        IN /\ \A k \in 1..a : t[k] \in IntWhitespaceChars
           /\ \A k \in (b + 1)..Len(t) : t[k] \in IntWhitespaceChars
           /\ first <= b
           /\ \A k \in first..b :
                  \/ t[k] \in Digits
                  \/ /\ t[k] = "_"
                     /\ first < k /\ k < b
                     /\ t[k - 1] \in Digits /\ t[k + 1] \in Digits
\* the paper has a publication date whose first four characters int() refuses
DateWithoutYear(paper) ==
    /\ "publication_date" \in DOMAIN paper
    /\ paper.publication_date # <<>>
    /\ ~IsIntLiteral(SubSeq(paper.publication_date, 1,
                            IF Len(paper.publication_date) < 4
                            THEN Len(paper.publication_date) ELSE 4))
\* the three weighted sub-scores other than recency, in millionths
OtherThreeMicro(paper) ==
    LET c == IF "citations" \in DOMAIN paper THEN paper.citations ELSE 0
        m == IF "social_mentions" \in DOMAIN paper THEN paper.social_mentions ELSE 0
        g == IF "github_stars" \in DOMAIN paper THEN paper.github_stars ELSE 0
        h == IF "author_hindex" \in DOMAIN paper THEN paper.author_hindex ELSE 0
    IN (IF c >= 100 THEN 400000 ELSE 4000 * c)
       + (IF 100 * m + g >= 5000 THEN 300000 ELSE 60 * (100 * m + g))
       + (IF h >= 50 THEN 200000 ELSE 4000 * h)
\* thousandths is micro millionths rounded to three decimals
IsRounded(thousandths, micro) ==
    /\ thousandths * 1000 - micro <= 500
    /\ micro - thousandths * 1000 <= 500

\* C22 as stated: when a publication date is present but no year can be
\* parsed from it, the score is the sum of the other three weighted
\* sub-scores plus the fallback 0.05 * 0.10 = 0.005 (the returned score being
\* that sum rounded to three decimals).
C22_FallbackIsWeighted ==
    (score_pc = "returned" /\ DateWithoutYear(score_paper))
        => IsRounded(score_result, OtherThreeMicro(score_paper) + 5000)

\* C22 amended: when a publication date is present but its first four
\* characters are not an integer literal, the recency contribution is the
\* fixed 0.05, so the returned score is the sum of the other three weighted
\* sub-scores plus 0.05, rounded to three decimals; four characters that are
\* an integer literal, as " 202" and "2_02" are, are read as that year (202,
\* which contributes nothing) and do not take the fallback.
C22_FallbackIsFlat ==
    /\ (score_pc = "returned" /\ DateWithoutYear(score_paper))
           => IsRounded(score_result, OtherThreeMicro(score_paper) + 50000)
    /\ (/\ score_pc = "returned"
        /\ "publication_date" \in DOMAIN score_paper
        /\ score_paper.publication_date \in {DPadded, DUnderscore})
           => IsRounded(score_result, OtherThreeMicro(score_paper))
C22_Witness ==
    /\ score_pc = "returned"
    /\ score_paper = [citations |-> 50, publication_date |-> DNone]
    /\ score_result = 250

\* ----------------------------------------------------- search_papers, more
\* the URLs the canonicalizer returns for the URLs a backend response carries
CandidateUrls == {c.dict.url.str : c \in {d \in Candidates : HasTextUrl(d)}}
CanonicalOutputs ==
    {validate_and_convert_arxiv_url(u).url :
        u \in {v \in CandidateUrls : validate_and_convert_arxiv_url(v).ok}}
HasCanonicalForm(url) ==
    /\ Len(url) > 5
    /\ SubSeq(url, 1, 5) = <<"https://", "arxiv.org", "/", "pdf", "/">>
    /\ url[Len(url)] # ".pdf"
\* the URLs, as the backend sent them, of the candidates of the latest
\* response whose URL the canonicalizer refuses
RefusedUrls ==
    IF response.kind # "papers" THEN {}
    ELSE {response.papers[i].dict.url.str :
            i \in {j \in 1..Len(response.papers) :
                     /\ HasTextUrl(response.papers[j])
                     /\ ~validate_and_convert_arxiv_url(
                            response.papers[j].dict.url.str).ok}}

\* C23: at every point of a search_papers call every paper of the final list
\* and every entry of the seen set has a URL the canonicalizer returned (of
\* the form https://arxiv.org/pdf/<identifier>); a candidate whose URL fails
\* canonicalization is stored in neither.
C23_OnlyCanonicalStored ==
    /\ \A i \in 1..Len(final_papers) :
          /\ HasCanonicalForm(final_papers[i].url)
          /\ final_papers[i].url \in CanonicalOutputs
    /\ \A u \in seen_urls : HasCanonicalForm(u) /\ u \in CanonicalOutputs
    /\ RefusedUrls \cap (seen_urls \cup Urls(final_papers)) = {}
C23_Witness ==
    /\ pc = "loop"
    /\ response = [kind |-> "papers", papers |-> <<CandOther, CandA_abs>>]
    /\ U_other \in RefusedUrls
    /\ Len(final_papers) = 1
    /\ final_papers[1].url = <<"https://", "arxiv.org", "/", "pdf", "/", "2401.12345">>
    /\ seen_urls = {final_papers[1].url}

\* C24: the request of iteration k carries as exclusion list exactly the
\* canonical URLs accepted in iterations 1..k-1 of the call: none in the
\* first iteration, and never a URL that was dropped or is not yet accepted.
C24_ExclusionListIsSeen ==
    /\ [][(pc = "loop" /\ pc' = "awaiting")
             => /\ url_list' = seen_urls
                /\ url_list' = Urls(final_papers)]_vars
    /\ []((pc = "awaiting" /\ requests = 1) => url_list = {})
    /\ [](url_list \subseteq seen_urls /\ url_list \cap RefusedUrls = {})
C24_Witness ==
    /\ pc = "awaiting"
    /\ requests = 3
    /\ Cardinality(url_list) = 1
    /\ url_list = Urls(final_papers)

IsPrefix(s, t) == Len(s) <= Len(t) /\ SubSeq(t, 1, Len(s)) = s

\* C25: in one search_papers call the seen set starts empty, never loses an
\* entry and after every merge equals the set of URLs of the final list; the
\* final list is only appended to, so each list is a prefix of the next.
C25_SeenGrowsListAppends ==
    /\ [](requests = 0 => (seen_urls = {} /\ final_papers = <<>>))
    /\ [][seen_urls \subseteq seen_urls']_vars
    /\ [](seen_urls = Urls(final_papers))
    /\ [][IsPrefix(final_papers, final_papers')]_vars
C25_Witness ==
    /\ pc = "loop"
    /\ requests = 2
    /\ Cardinality(url_list) = 1
    /\ Len(final_papers) = 3
    /\ final_papers[1].url \in url_list

\* C27: search_papers issues a backend request only when the final list holds
\* fewer than max_results papers and attempts remain: none once the quota is
\* reached, and none at all for max_results <= 0, which returns an empty list.
C27_RequestsOnlyBelowQuota ==
    /\ [][requests' # requests
             => /\ requests' = requests + 1
                /\ Len(final_papers) < max_results
                /\ exhausted_cycles > 0]_vars
    /\ []((pc = "loop" /\ Len(final_papers) >= max_results)
             => (~ENABLED SearchRequest /\ ENABLED Return))
    /\ [](max_results <= 0
             => /\ requests = 0
                /\ pc = "returned" => result = [kind |-> "list", papers |-> <<>>])
C27_Witness ==
    /\ pc = "returned"
    /\ max_results = 2
    /\ requests = 1
    /\ exhausted_cycles = InitialCycles - 1
    /\ Len(result.papers) = 2

\* ----------------------------------------------------- summarization, more
NonSuccessShape(r) ==
    /\ r.html_summary = <<>>
    /\ "error" \in DOMAIN r
    /\ r.error # <<>>
    /\ Len(r.error) = 2 /\ r.error[2] # ""

\* C26 as stated: every result of _summarize_single_paper has status success,
\* fetch_error or error; error is given exactly for failures other than a
\* failure of the fetch; a result that is not success has an empty
\* html_summary and an error text, a success result has no error text.
C26_ErrorExactlyOutsideFetch ==
    \A i \in DoneWorkers :
        outcomes[i].kind = "result" =>
            /\ outcomes[i].status \in {"success", "fetch_error", "error"}
            /\ outcomes[i].status = "error"
                  <=> (workers[i].fetch = "ok" /\ workers[i].generation.kind # "text")
            /\ outcomes[i].status # "success" => NonSuccessShape(outcomes[i])
            /\ outcomes[i].status = "success" => "error" \notin DOMAIN outcomes[i]

\* the httpx.HTTPError the try block of worker i met, in the fetch or in the
\* generation call
MetHttpError(i) ==
    \/ workers[i].fetch \in {"HTTPStatusError", "ConnectTimeout"}
    \/ /\ workers[i].fetch = "ok"
       /\ workers[i].generation.kind = "raises"
       /\ workers[i].generation.error = "ReadTimeout"
\* any other failure the try block of worker i met
MetOtherFailure(i) ==
    \/ workers[i].fetch = "InvalidURL"
    \/ /\ workers[i].fetch = "ok"
       /\ \/ workers[i].generation.kind = "no_text"
          \/ /\ workers[i].generation.kind = "raises"
             /\ workers[i].generation.error = "APIError"

\* C26 amended: a call for a paper that has a url returns a result, and every
\* result has status success, fetch_error or error (a call for a paper
\* without url returns none: it raises); fetch_error is given exactly when an
\* httpx.HTTPError is raised anywhere in the try block, by the fetch
\* (transport failure or non-2xx status) or by the generation call, and error
\* for every other failure caught, a fetch that fails otherwise
\* (httpx.InvalidURL), the Generation Service raising its own error and a
\* response without text included; a result that is not success has an empty
\* html_summary and an error text, a success result has no error text.
C26_ErrorForAllButHttpErrors ==
    \A i \in DoneWorkers :
        /\ outcomes[i].kind = "result" <=> "url" \in DOMAIN papers[i]
        /\ outcomes[i].kind = "result" =>
            /\ outcomes[i].status \in {"success", "fetch_error", "error"}
            /\ outcomes[i].status = "fetch_error" <=> MetHttpError(i)
            /\ outcomes[i].status = "error" <=> MetOtherFailure(i)
            /\ outcomes[i].status # "success" => NonSuccessShape(outcomes[i])
            /\ outcomes[i].status = "success" => "error" \notin DOMAIN outcomes[i]
C26_Witness ==
    /\ Len(papers) = 2
    /\ DoneWorkers = {1, 2}
    /\ workers[1].fetch = "InvalidURL" /\ outcomes[1].status = "error"
    /\ workers[2].fetch = "ok"
    /\ workers[2].generation = [kind |-> "raises", error |-> "ReadTimeout"]
    /\ outcomes[2].status = "fetch_error"
    /\ NonSuccessShape(outcomes[1])
    /\ NonSuccessShape(outcomes[2])

\* the steps a worker may go through, one after the other
StepPairs == {<<"queued", "fetch">>, <<"fetch", "generate">>,
              <<"generate", "persist">>, <<"persist", "write">>,
              <<"write", "saved">>, <<"persist", "saved">>,
              <<"saved", "done">>,
              <<"fetch", "done">>, <<"generate", "done">>}

\* C28: in one worker the steps happen in the order fetch, generate,
\* validate, persist: the Generation Service is not invoked after a failed
\* fetch, and a summary file is written only for a paper whose fetch,
\* generation and validation succeeded, never for a result that is not
\* success.
C28_StepsInOrder ==
    /\ [][\A i \in 1..Len(workers) :
             workers'[i].step # workers[i].step
                => <<workers[i].step, workers'[i].step>> \in StepPairs]_vars
    /\ [](\A i \in 1..Len(workers) :
             /\ "generation" \in DOMAIN workers[i] => workers[i].fetch = "ok"
             /\ "persist" \in DOMAIN workers[i]
                   => (workers[i].fetch = "ok" /\ workers[i].generation.kind = "text")
             /\ (workers[i].step = "done"
                    /\ (outcomes[i].kind # "result" \/ outcomes[i].status # "success"))
                   => "persist" \notin DOMAIN workers[i])
    /\ [][files' # files
             => \E i \in 1..Len(workers) :
                   /\ workers[i].step \in {"persist", "write"}
                   /\ workers'[i].step \in {"write", "saved"}
                   /\ workers[i].fetch = "ok"
                   /\ workers[i].generation.kind = "text"
                   /\ DOMAIN files' = DOMAIN files \cup {PathOf(i)}
                   /\ \A n \in DOMAIN files : n # PathOf(i) => files'[n] = files[n]
                   /\ \A j \in 1..Len(workers) : j # i => workers'[j] = workers[j]]_vars
    /\ [](\A n \in DOMAIN files : \E i \in Opened : PathOf(i) = n)
    /\ [](\A i \in Opened \cap DoneWorkers :
             outcomes[i].kind = "result" /\ outcomes[i].status = "success")
C28_Witness ==
    /\ spc = "returned"
    /\ Len(papers) = 2
    /\ workers[1].fetch = "ConnectTimeout"
    /\ "generation" \notin DOMAIN workers[1]
    /\ Written = {2}
    /\ DOMAIN files = {PathOf(2)}
    /\ files[PathOf(2)] = Characters(outcomes[2].html_summary)

====
